---- MODULE Spec2Model ----
(***************************************************************************)
(* Document extraction pipeline of invoice_reconciliation/app:             *)
(*   core/ocr/data_parser.py     line grouping, key-value pairs, tables    *)
(*   core/ocr/text_extractor.py  profile loop, fallback, token pass        *)
(*   core/ocr/image_processor.py preprocessing, page rasterization         *)
(*   core/ocr/ocr_helpers.py     error response, average confidence        *)
(*   services/ocr_service.py     image and PDF pipelines                   *)
(*                                                                         *)
(* A Python str is a sequence of one-character strings, a list a sequence, *)
(* a dict a function whose DOMAIN is its key set.                          *)
(***************************************************************************)
EXTENDS Integers, Sequences, FiniteSets, TLC

VARIABLES
    \* extract_all_data_advanced, layout half (text_extractor.py 163-166)
    words_data, lines, key_value_pairs, tables, lpc,
    \* extract_plain_text_advanced (text_extractor.py 11-88)
    config_idx, best_text, max_confidence, elapsed, attempts, plain_text, rpc,
    \* the profiles handed to the engine so far, each with the time since
    \* start_time at which its attempt was started
    tried,
    \* preprocess_image_advanced (image_processor.py 50-92)
    pre_image, pre_fail_at, pre_result, ppc,
    \* OCRService.process_document_from_url (ocr_service.py 33-194)
    url, pc, pages_data_raw, all_pages_data, combined_text, combined_tables,
    combined_kv_pairs, combined_structured_data, first_page_image_b64,
    all_page_images, result,
    \* the environment of one request: how the download ended, the bytes it
    \* returned, and how often the fetcher and the rasterizer were called
    fetch, pdf_content, fetch_calls, raster_calls,
    \* what each page processed so far was given: the step of the
    \* preprocessor that raised, the raster the preprocessor returned and
    \* what the engine and the layout steps did
    page_inputs,
    \* OCRService._process_image_from_url after the download, step by step
    \* (ocr_service.py 70-93, text_extractor.py 159-189)
    ipc, page_image, page_pre_fail, page_ocr, page_encodes, original_image_b64,
    processed_image, page_plain_text, page_structured_data, extracted,
    image_result, plain_runs, structured_runs,
    \* run_with_timeout (ocr_helpers.py 10-36) called repeatedly by one
    \* request: the worker threads, their result cells and what the caller
    \* was handed
    run_pc, call_no, workers, cells, observed, run_best,
    \* process_pdf_pages (image_processor.py 108-151) step by step
    raster_pc, raster_content, raster_faults, tmp_file_exists, doc_handle,
    pages_data, raster_exit

layoutVars == <<words_data, lines, key_value_pairs, tables, lpc>>
recogVars == <<config_idx, best_text, max_confidence, elapsed, attempts,
               plain_text, rpc, tried>>
preVars == <<pre_image, pre_fail_at, pre_result, ppc>>
docVars == <<url, pc, pages_data_raw, all_pages_data, combined_text,
             combined_tables, combined_kv_pairs, combined_structured_data,
             first_page_image_b64, all_page_images, result,
             fetch, pdf_content, fetch_calls, raster_calls, page_inputs>>
imageVars == <<ipc, page_image, page_pre_fail, page_ocr, page_encodes,
               original_image_b64, processed_image, page_plain_text,
               page_structured_data, extracted, image_result, plain_runs,
               structured_runs>>
runVars == <<run_pc, call_no, workers, cells, observed, run_best>>
rasterVars == <<raster_pc, raster_content, raster_faults, tmp_file_exists,
                doc_handle, pages_data, raster_exit>>
vars == <<layoutVars, recogVars, preVars, docVars, imageVars, runVars,
          rasterVars>>

(***************************************************************************)
(* Python built-ins on str and list                                        *)
(***************************************************************************)
NoValue == "None"

MinOf(S) == CHOOSE x \in S : \A y \in S : x <= y
MaxOf(S) == CHOOSE x \in S : \A y \in S : y <= x
Abs(x) == IF x < 0 THEN -x ELSE x

UpperChars == <<"A","B","C","D","E","F","G","H","I","J","K","L","M",
                "N","O","P","Q","R","S","T","U","V","W","X","Y","Z">>
LowerChars == <<"a","b","c","d","e","f","g","h","i","j","k","l","m",
                "n","o","p","q","r","s","t","u","v","w","x","y","z">>

\* str.lower() on one character
LowerChar(c) ==
    IF \E i \in 1..Len(UpperChars) : UpperChars[i] = c
    THEN LowerChars[CHOOSE i \in 1..Len(UpperChars) : UpperChars[i] = c]
    ELSE c

\* str.lower()
LowerStr(s) == [i \in 1..Len(s) |-> LowerChar(s[i])]

\* The ASCII characters Python counts as whitespace: space, \t, \n, \r, \f
\* and the control characters 0x0b (\v), 0x1c, 0x1d, 0x1e and 0x1f, which
\* have no escape and stand in the second row as themselves
AsciiWhitespace ==
    {" ", "\t", "\n", "\r", "\f"}
    \cup {"", "", "", "", ""}

\* str.isspace() on one character, also the regex class \s
IsSpace(c) == c \in AsciiWhitespace

\* str.strip()
Strip(s) ==
    LET keep == {i \in 1..Len(s) : ~IsSpace(s[i])}
    IN  IF keep = {} THEN <<>> ELSE SubSeq(s, MinOf(keep), MaxOf(keep))

\* sub in s
Contains(s, sub) ==
    \E i \in 0..(Len(s) - Len(sub)) : SubSeq(s, i + 1, i + Len(sub)) = sub

\* sep.join(parts[lo..hi]), by halves
RECURSIVE JoinRange(_, _, _, _)
JoinRange(sep, parts, lo, hi) ==
    IF lo > hi THEN <<>>
    ELSE IF lo = hi THEN parts[lo]
    ELSE JoinRange(sep, parts, lo, (lo + hi) \div 2) \o sep
             \o JoinRange(sep, parts, ((lo + hi) \div 2) + 1, hi)

\* sep.join(parts)
Join(sep, parts) == JoinRange(sep, parts, 1, Len(parts))

\* str(n) for n >= 0
DigitChars == <<"0","1","2","3","4","5","6","7","8","9">>
RECURSIVE IntToStr(_)
IntToStr(n) ==
    IF n < 10 THEN <<DigitChars[n + 1]>>
    ELSE IntToStr(n \div 10) \o <<DigitChars[(n % 10) + 1]>>

\* list concatenation of the lists ss[lo..hi], by halves
RECURSIVE FlattenRange(_, _, _)
FlattenRange(ss, lo, hi) ==
    IF lo > hi THEN <<>>
    ELSE IF lo = hi THEN ss[lo]
    ELSE FlattenRange(ss, lo, (lo + hi) \div 2)
             \o FlattenRange(ss, ((lo + hi) \div 2) + 1, hi)

Flatten(ss) == FlattenRange(ss, 1, Len(ss))

DictUpdate_keepFirst(a, b) ==
    [k \in (DOMAIN a) \cup (DOMAIN b) |-> IF k \in DOMAIN a THEN a[k] ELSE b[k]]

\* dict.update(): every key of b overwrites, the other keys of a stay
DictUpdate(a, b) ==
    [k \in (DOMAIN a) \cup (DOMAIN b) |-> IF k \in DOMAIN b THEN b[k] ELSE a[k]]

\* d[k] = v
DictSet(d, k, v) ==
    [x \in (DOMAIN d) \cup {k} |-> IF x = k THEN v ELSE d[x]]

EmptyDict == <<>>

(***************************************************************************)
(* Tokens: the dicts built by structured_ocr_task (text_extractor.py       *)
(* 113-127), reduced to the fields the layout code reads.                  *)
(***************************************************************************)
Token(text, confidence, left, top, width) ==
    [text |-> text, confidence |-> confidence,
     bbox |-> [left |-> left, top |-> top, width |-> width]]

\* sorted(words, key=lambda x: x['bbox'][field]). Python's sort is stable:
\* a word goes after every word of the sorted prefix whose key is not greater.
InsertByBBox(sorted, word, field) ==
    LET p == Cardinality({i \in 1..Len(sorted) :
                             sorted[i].bbox[field] <= word.bbox[field]})
    IN  SubSeq(sorted, 1, p) \o <<word>> \o SubSeq(sorted, p + 1, Len(sorted))

\* the words lo..hi inserted one by one, in order, into sorted. The range is
\* folded by halves, and the first half is evaluated (first = first) before the
\* second starts, which keeps the evaluation stack logarithmic.
RECURSIVE InsertRange(_, _, _, _, _)
InsertRange(sorted, words, lo, hi, field) ==
    IF lo > hi THEN sorted
    ELSE IF lo = hi THEN InsertByBBox(sorted, words[lo], field)
    ELSE LET first == InsertRange(sorted, words, lo, (lo + hi) \div 2, field)
         IN  IF first = first
             THEN InsertRange(first, words, ((lo + hi) \div 2) + 1, hi, field)
             ELSE sorted

SortedByBBox(words, field) == InsertRange(<<>>, words, 1, Len(words), field)

(***************************************************************************)
(* group_words_into_lines (data_parser.py 8-35)                            *)
(***************************************************************************)
line_tolerance == 10

\* data_parser.py 22: the test that keeps a word on the current line
SameLine(word, current_line) ==
    Abs(word.bbox.top - current_line[Len(current_line)].bbox.top) <= line_tolerance

\* data_parser.py 21-28: one iteration of the loop over sorted_words[1:]
GroupStep(st, word) ==
    IF SameLine(word, st.current_line)
    THEN [lines |-> st.lines, current_line |-> Append(st.current_line, word)]
    ELSE [lines |-> Append(st.lines, SortedByBBox(st.current_line, "left")),
          current_line |-> <<word>>]

\* data_parser.py 20: the iterations for sorted_words[lo..hi], in order
\* (by halves)
RECURSIVE GroupScan(_, _, _, _)
GroupScan(sorted_words, lo, hi, st) ==
    IF lo > hi THEN st
    ELSE IF lo = hi THEN GroupStep(st, sorted_words[lo])
    ELSE LET first == GroupScan(sorted_words, lo, (lo + hi) \div 2, st)
         IN  IF first = first
             THEN GroupScan(sorted_words, ((lo + hi) \div 2) + 1, hi, first)
             ELSE st

AddLastLine_unsorted(scan) == Append(scan.lines, scan.current_line)

AddLastLine_dropped(scan) == scan.lines

\* data_parser.py 30-35: the last line is sorted and added
AddLastLine(scan) ==
    IF scan.current_line # <<>>
    THEN Append(scan.lines, SortedByBBox(scan.current_line, "left"))
    ELSE scan.lines

\* data_parser.py 16-35, given the words sorted by top
GroupSorted(sorted_words) ==
    AddLastLine(GroupScan(sorted_words, 2, Len(sorted_words),
                          [lines |-> <<>>, current_line |-> <<sorted_words[1]>>]))

group_words_into_lines(wd) ==
    IF wd = <<>> THEN <<>> ELSE GroupSorted(SortedByBBox(wd, "top"))

(***************************************************************************)
(* extract_kv_pairs_from_lines (data_parser.py 38-97)                      *)
(***************************************************************************)
\* the words of the patterns of data_parser.py 43-56
kw ==
    [invoice |-> <<"i","n","v","o","i","c","e">>,
     bill |-> <<"b","i","l","l">>,
     no |-> <<"n","o">>,
     number |-> <<"n","u","m","b","e","r">>,
     hash |-> <<"#">>,
     date |-> <<"d","a","t","e">>,
     dated |-> <<"d","a","t","e","d">>,
     gst |-> <<"g","s","t">>,
     gstin |-> <<"g","s","t","i","n">>,
     pan |-> <<"p","a","n">>,
     vendor |-> <<"v","e","n","d","o","r">>,
     supplier |-> <<"s","u","p","p","l","i","e","r">>,
     company |-> <<"c","o","m","p","a","n","y">>,
     name |-> <<"n","a","m","e">>,
     total |-> <<"t","o","t","a","l">>,
     grand |-> <<"g","r","a","n","d">>,
     final |-> <<"f","i","n","a","l">>,
     amount |-> <<"a","m","o","u","n","t">>,
     quantity |-> <<"q","u","a","n","t","i","t","y">>,
     qty |-> <<"q","t","y">>,
     rate |-> <<"r","a","t","e">>,
     price |-> <<"p","r","i","c","e">>,
     hsn |-> <<"h","s","n">>,
     sac |-> <<"s","a","c">>,
     cgst |-> <<"c","g","s","t">>,
     sgst |-> <<"s","g","s","t">>,
     igst |-> <<"i","g","s","t">>,
     taxable |-> <<"t","a","x","a","b","l","e">>,
     tax |-> <<"t","a","x">>,
     value |-> <<"v","a","l","u","e">>,
     description |-> <<"d","e","s","c","r","i","p","t","i","o","n">>,
     particulars |-> <<"p","a","r","t","i","c","u","l","a","r","s">>,
     item |-> <<"i","t","e","m">>]

\* Regular expressions: a pattern is a set of alternatives, an alternative a
\* sequence of parts: (?:a|b) is Lit({a, b}), \s* is Ws, (?:a|b)? is Opt({a,
\* b}).
Lit(alts) == [k |-> "lit", alts |-> alts]
Opt(alts) == [k |-> "opt", alts |-> alts]
Ws == [k |-> "ws", alts |-> {}]

\* the parts from index j on match s at position i (backtracking, as re does)
RECURSIVE MatchParts(_, _, _, _)
MatchParts(parts, j, s, i) ==
    IF j > Len(parts) THEN TRUE
    ELSE LET part == parts[j]
             lit == \E a \in part.alts :
                        /\ i + Len(a) - 1 <= Len(s)
                        /\ SubSeq(s, i, i + Len(a) - 1) = a
                        /\ MatchParts(parts, j + 1, s, i + Len(a))
         IN  IF part.k = "lit" THEN lit
             ELSE IF part.k = "opt" THEN lit \/ MatchParts(parts, j + 1, s, i)
             ELSE \E n \in 0..(Len(s) - i + 1) :
                      /\ \A m \in 0..(n - 1) : IsSpace(s[i + m])
                      /\ MatchParts(parts, j + 1, s, i + n)

\* re.search(pattern, s, re.IGNORECASE); the patterns are lower case
re_search(pattern, s) ==
    \E alt \in pattern : \E i \in 1..(Len(s) + 1) :
        MatchParts(alt, 1, LowerStr(s), i)

\* data_parser.py 43-56
key_patterns == <<
    {<<Lit({kw.invoice, kw.bill}), Ws, Lit({kw.no, kw.number, kw.hash})>>},
    {<<Lit({kw.date, kw.dated})>>},
    {<<Lit({kw.gst, kw.gstin}), Ws, Opt({kw.no, kw.number})>>},
    {<<Lit({kw.pan})>>, <<Lit({kw.pan}), Ws, Lit({kw.no})>>},
    {<<Lit({kw.vendor, kw.supplier, kw.company}), Ws, Opt({kw.name})>>},
    {<<Lit({kw.total})>>, <<Lit({kw.grand}), Ws, Lit({kw.total})>>,
     <<Lit({kw.final}), Ws, Lit({kw.amount})>>},
    {<<Lit({kw.quantity, kw.qty})>>},
    {<<Lit({kw.rate, kw.price, kw.amount})>>},
    {<<Lit({kw.hsn, kw.sac})>>},
    {<<Lit({kw.cgst, kw.sgst, kw.igst})>>},
    {<<Lit({kw.taxable, kw.tax}), Ws, Lit({kw.amount, kw.value})>>},
    {<<Lit({kw.description, kw.particulars, kw.item})>>} >>

\* the for/break loops over key_patterns (data_parser.py 73-76, 89-95)
MatchesKeyPattern(s) ==
    \E p \in 1..Len(key_patterns) : re_search(key_patterns[p], s)

\* [word['text'] for word in line]
LineTexts(line) == [i \in 1..Len(line) |-> line[i].text]

\* ' '.join([word['text'] for word in line])
LineText(line) == Join(<<" ">>, LineTexts(line))

\* line_text.split(':', 1), given ':' in line_text
SplitFirstColon(line_text) ==
    LET c == MinOf({i \in 1..Len(line_text) : line_text[i] = ":"})
    IN  <<SubSeq(line_text, 1, c - 1), SubSeq(line_text, c + 1, Len(line_text))>>

adjacency_limit == 100
min_key_len == 2
max_key_len == 50
max_value_len == 200

KVColon_shortKeys(kv, line_text) ==
    LET parts == SplitFirstColon(line_text)
        key == LowerStr(Strip(parts[1]))
        value == Strip(parts[2])
    IN  IF MatchesKeyPattern(key) THEN DictSet(kv, key, value)
        ELSE IF /\ Len(key) >= min_key_len /\ Len(key) < max_key_len
                /\ Len(value) > 0 /\ Len(value) < max_value_len
             THEN DictSet(kv, key, value)
             ELSE kv

\* data_parser.py 66-80: the colon rule on one line
KVColon(kv, line_text) ==
    LET parts == SplitFirstColon(line_text)
        key == LowerStr(Strip(parts[1]))
        value == Strip(parts[2])
    IN  IF MatchesKeyPattern(key) THEN DictSet(kv, key, value)
        ELSE IF /\ Len(key) > min_key_len /\ Len(key) < max_key_len
                /\ Len(value) > 0 /\ Len(value) < max_value_len
             THEN DictSet(kv, key, value)
             ELSE kv

RECURSIVE KVAdjacent_atLimit(_, _, _)
KVAdjacent_atLimit(kv, line, i) ==
    IF i > Len(line) - 1 THEN kv
    ELSE LET key_word == LowerStr(line[i].text)
             value_word == line[i + 1].text
             distance == line[i + 1].bbox.left
                             - (line[i].bbox.left + line[i].bbox.width)
         IN  IF MatchesKeyPattern(key_word) /\ distance <= adjacency_limit
             THEN KVAdjacent_atLimit(DictSet(kv, key_word, value_word), line, i + 1)
             ELSE KVAdjacent_atLimit(kv, line, i + 1)

\* data_parser.py 84-95: the adjacent-word rule from index i (1-based) on
RECURSIVE KVAdjacent(_, _, _)
KVAdjacent(kv, line, i) ==
    IF i > Len(line) - 1 THEN kv
    ELSE LET key_word == LowerStr(line[i].text)
             value_word == line[i + 1].text
             distance == line[i + 1].bbox.left
                             - (line[i].bbox.left + line[i].bbox.width)
         IN  IF MatchesKeyPattern(key_word) /\ distance < adjacency_limit
             THEN KVAdjacent(DictSet(kv, key_word, value_word), line, i + 1)
             ELSE KVAdjacent(kv, line, i + 1)

\* data_parser.py 58-95: the body of `for line in lines`
KVLine(kv, line) ==
    IF Len(line) < 2 THEN kv
    ELSE IF Contains(LineText(line), <<":">>) THEN KVColon(kv, LineText(line))
    ELSE KVAdjacent(kv, line, 1)

\* data_parser.py 58: the loop over lines lo..hi, in order (by halves)
RECURSIVE KVFold(_, _, _, _)
KVFold(kv, ls, lo, hi) ==
    IF lo > hi THEN kv
    ELSE IF lo = hi THEN KVLine(kv, ls[lo])
    ELSE LET first == KVFold(kv, ls, lo, (lo + hi) \div 2)
         IN  IF first = first
             THEN KVFold(first, ls, ((lo + hi) \div 2) + 1, hi)
             ELSE kv

extract_kv_pairs_from_lines(ls) == KVFold(EmptyDict, ls, 1, Len(ls))

\* data_parser.py 100-113; raises says that extract_kv_pairs_from_lines raises
\* (no list of lines that group_words_into_lines returns makes it raise)
extract_key_value_pairs_advanced(ls, raises) ==
    IF raises THEN EmptyDict ELSE extract_kv_pairs_from_lines(ls)

(***************************************************************************)
(* extract_table_structure_advanced (data_parser.py 116-130)               *)
(***************************************************************************)
table_min_tokens == 3
table_row_cap == 50
table_min_rows == 1

\* data_parser.py 126
header_keywords == {kw.description, kw.qty, kw.rate, kw.amount, kw.hsn, kw.total,
                    kw.particulars, kw.item, kw.quantity}

\* data_parser.py 125-126
IsHeaderLine(line) ==
    \E keyword \in header_keywords : Contains(LowerStr(LineText(line)), keyword)

\* data_parser.py 123-129: what one line appends to table_rows
TableRowOf(line) ==
    IF Len(line) >= table_min_tokens /\ ~IsHeaderLine(line)
    THEN <<LineTexts(line)>>
    ELSE <<>>

\* data_parser.py 122: table_rows after the loop over the lines
TableRows(ls) == Flatten([i \in 1..Len(ls) |-> TableRowOf(ls[i])])

ReturnedRows_noCap(table_rows) ==
    IF Len(table_rows) > table_min_rows THEN table_rows ELSE <<>>

ReturnedRows_oneRow(table_rows) ==
    SubSeq(table_rows, 1, MinOf({Len(table_rows), table_row_cap}))

\* data_parser.py 130: table_rows[:50] if len(table_rows) > 1 else []
ReturnedRows(table_rows) ==
    IF Len(table_rows) > table_min_rows
    THEN SubSeq(table_rows, 1, MinOf({Len(table_rows), table_row_cap}))
    ELSE <<>>

extract_table_structure_advanced(ls) ==
    IF ls = <<>> THEN <<>> ELSE ReturnedRows(TableRows(ls))

\* data_parser.py 133-143; raises says that extract_table_structure_advanced
\* raises
extract_table_data_advanced(ls, raises) ==
    IF raises THEN <<>> ELSE extract_table_structure_advanced(ls)

(***************************************************************************)
(* extract_plain_text_advanced (text_extractor.py 11-88)                   *)
(*                                                                         *)
(* What one recognition call did is an outcome record:                     *)
(*   kind  "data" (returned), "timeout" (run_with_timeout gave up) or      *)
(*         "raise" (the call raised)                                       *)
(*   conf, text  the parallel lists data['conf'] and data['text']          *)
(*   result      the string image_to_string returned (fallback pass)       *)
(*   dur         the seconds the caller spent in run_with_timeout          *)
(***************************************************************************)
msg_timed_out == <<"O","C","R"," ","p","r","o","c","e","s","s","i","n","g"," ",
                   "t","i","m","e","d"," ","o","u","t"," ","-"," ",
                   "u","n","a","b","l","e"," ","t","o"," ",
                   "e","x","t","r","a","c","t"," ","t","e","x","t">>
msg_failed == <<"O","C","R"," ","p","r","o","c","e","s","s","i","n","g"," ",
                "f","a","i","l","e","d">>

\* text_extractor.py 19-25
configs_to_test == <<"default", "uniform_text", "single_block", "sparse_text",
                     "sparse_text_osd">>

total_timeout_seconds == 180
attempt_timeout_seconds == 60
fallback_timeout_seconds == 30

\* sum(xs[lo..hi]), by halves
RECURSIVE SumRange(_, _, _)
SumRange(xs, lo, hi) ==
    IF lo > hi THEN 0
    ELSE IF lo = hi THEN xs[lo]
    ELSE SumRange(xs, lo, (lo + hi) \div 2)
             + SumRange(xs, ((lo + hi) \div 2) + 1, hi)

\* sum(xs)
SumSeq(xs) == SumRange(xs, 1, Len(xs))

IsPositive(c) == c > 0
IsNotBlank(t) == Strip(t) # <<>>

\* text_extractor.py 49
Confidences(data) == SelectSeq(data.conf, IsPositive)

\* text_extractor.py 56: '\n'.join([t for t in data['text'] if t.strip()])
JoinedText(data) == Join(<<"\n">>, SelectSeq(data.text, IsNotBlank))

\* a / b > c / d for b, d > 0: the comparison of text_extractor.py 54, where
\* the averages are the quotients sum / len
RatGreater(x, y) == x[1] * y[2] > y[1] * x[2]

\* text_extractor.py 49-58: a returned attempt against the best so far;
\* st is [best_text, max_confidence], max_confidence a quotient <<sum, len>>
ProfileResult(st, data) ==
    LET confidences == Confidences(data)
        avg_confidence == <<SumSeq(confidences), Len(confidences)>>
    IN  IF confidences # <<>> /\ RatGreater(avg_confidence, st.max_confidence)
        THEN [best_text |-> JoinedText(data), max_confidence |-> avg_confidence]
        ELSE st

\* text_extractor.py 36-62: one iteration of the profile loop
ProfileStep(st, outcome) ==
    IF outcome.kind = "data" THEN ProfileResult(st, outcome) ELSE st

\* text_extractor.py 73-81: best_text after the fallback pass
FallbackResult(best, outcome) ==
    IF outcome.kind = "raise" THEN msg_failed
    ELSE IF outcome.kind = "timeout" THEN msg_timed_out
    ELSE IF outcome.result # <<>> THEN outcome.result
    ELSE best

NeedsFallback_always(best) == best = best

\* text_extractor.py 65
NeedsFallback(best) == Strip(best) = <<>>

\* text_extractor.py 32-62: the profile loop from profile i on, t seconds
\* after start_time; outcomes[i] is what the attempt with profile i does
RECURSIVE ProfileLoop(_, _, _, _)
ProfileLoop(outcomes, i, t, st) ==
    IF i > Len(configs_to_test) \/ t > total_timeout_seconds THEN st
    ELSE ProfileLoop(outcomes, i + 1, t + outcomes[i].dur,
                     ProfileStep(st, outcomes[i]))

\* text_extractor.py 64-84: from the end of the loop to the return
AfterLoop(best, fallback_outcome) ==
    IF NeedsFallback(best)
    THEN Strip(FallbackResult(best, fallback_outcome))
    ELSE Strip(best)

\* text_extractor.py 11-88
extract_plain_text_advanced(profile_outcomes, fallback_outcome) ==
    AfterLoop(ProfileLoop(profile_outcomes, 1, 0,
                          [best_text |-> <<>>,
                           max_confidence |-> <<0, 1>>]).best_text,
              fallback_outcome)

(***************************************************************************)
(* extract_text_with_confidence_and_positioning_advanced                   *)
(* (text_extractor.py 91-145). data is a sequence of entries               *)
(* [text, conf, left, top, width], the columns of image_to_data.           *)
(***************************************************************************)
min_token_confidence == 30

IsKeptEntry_atLeast(e) == Strip(e.text) # <<>> /\ e.conf >= min_token_confidence

\* text_extractor.py 109-112
IsKeptEntry(e) == Strip(e.text) # <<>> /\ e.conf > min_token_confidence

\* text_extractor.py 105-130: structured_ocr_task
StructuredResults(entries) ==
    LET kept == SelectSeq(entries, IsKeptEntry)
    IN  [i \in 1..Len(kept) |->
            Token(Strip(kept[i].text), kept[i].conf, kept[i].left, kept[i].top,
                  kept[i].width)]

\* text_extractor.py 132-145: a timeout and an exception both give []
extract_text_with_confidence_and_positioning_advanced(outcome) ==
    IF outcome.kind = "data" THEN StructuredResults(outcome.entries) ELSE <<>>

(***************************************************************************)
(* extract_all_data_advanced (text_extractor.py 148-189). ocr is what the  *)
(* engine does on the page: the outcomes of the five profile attempts, of  *)
(* the fallback pass and of the structured pass, and layout_faults, the    *)
(* layout steps that raise: "group" (line 164), "kv" (inside line 165),    *)
(* "table" (inside line 166). The metadata keeps the two counts; the       *)
(* rounded average confidence is left out.                                 *)
(***************************************************************************)
layout_steps == {"group", "kv", "table"}

\* text_extractor.py 181-189: the except branch of extract_all_data_advanced
FailedExtraction ==
    [plain_text |-> <<>>,
     structured_data |-> <<>>,
     key_value_pairs |-> EmptyDict,
     tables |-> <<>>,
     metadata |-> [error |-> <<"e">>]]

\* text_extractor.py 169-180
ExtractionResult(plain, structured_data, pairs, rows) ==
    [plain_text |-> plain,
     structured_data |-> structured_data,
     key_value_pairs |-> pairs,
     tables |-> rows,
     metadata |-> [total_text_elements |-> Len(structured_data),
                   tables_found |-> Len(rows)]]

\* text_extractor.py 165-166
LayoutOf(plain, structured_data, ls, faults) ==
    ExtractionResult(plain, structured_data,
                     extract_key_value_pairs_advanced(ls, "kv" \in faults),
                     extract_table_data_advanced(ls, "table" \in faults))

\* text_extractor.py 164, and 181-189 when the line grouping raises
AfterRecognition(plain, structured_data, faults) ==
    IF "group" \in faults THEN FailedExtraction
    ELSE LayoutOf(plain, structured_data,
                  group_words_into_lines(structured_data), faults)

\* text_extractor.py 162-163
extract_all_data_advanced(ocr) ==
    AfterRecognition(
        extract_plain_text_advanced(ocr.profiles, ocr.fallback),
        extract_text_with_confidence_and_positioning_advanced(ocr.structured),
        ocr.layout_faults)

(***************************************************************************)
(* preprocess_image_advanced (image_processor.py 50-92). An image is       *)
(* [id, mode, ops]: the raster it came from, its PIL mode and the          *)
(* operations applied to it. fail_at is the step that raises, 0 for none.  *)
(***************************************************************************)
\* image_processor.py 56-85: the steps in order; step 1 runs only when the
\* mode is not RGB
pre_steps == <<"convert_rgb", "to_bgr", "to_gray", "clahe", "bilateral",
               "morph_close", "morph_open", "adaptive_threshold", "fromarray",
               "median_filter", "sharpness">>

\* image_processor.py 56-57: the parameter pil_image is rebound
ConvertedRGB(pil_image) ==
    IF pil_image.mode # "RGB"
    THEN [id |-> pil_image.id, mode |-> "RGB",
          ops |-> Append(pil_image.ops, pre_steps[1])]
    ELSE pil_image

\* image_processor.py 60-88: the binary, filtered, sharpened image
ProcessedImage(rgb_image) ==
    [id |-> rgb_image.id, mode |-> "L",
     ops |-> rgb_image.ops \o SubSeq(pre_steps, 2, Len(pre_steps))]

preprocess_image_advanced(pil_image, fail_at) ==
    IF fail_at = 0 THEN ProcessedImage(ConvertedRGB(pil_image))
    ELSE IF fail_at = 1 THEN pil_image
    ELSE ConvertedRGB(pil_image)

\* image_processor.py 95-105: the encoded image, "" when encoding fails
image_to_base64(pil_image, encodes) ==
    IF encodes THEN <<"p", "n", "g">> \o IntToStr(pil_image.id) ELSE <<>>

(***************************************************************************)
(* process_pdf_pages (image_processor.py 108-151). pdf_content is          *)
(* [pages, bad_page, opens]: the number of pages, the page whose rendering *)
(* raises (0 for none) and whether fitz.open succeeds. The value is        *)
(* [raised, value].                                                        *)
(***************************************************************************)
\* image_processor.py 121-135: pages 1..n rendered at 2x
RenderedPages(n) ==
    [i \in 1..n |->
        [page_number |-> (i - 1) + 1,
         pil_image |-> [id |-> i, mode |-> "RGB", ops |-> <<>>]]]

process_pdf_pages_partial(content) ==
    IF ~content.opens THEN [raised |-> TRUE, value |-> <<>>]
    ELSE IF content.bad_page \in 1..content.pages
    THEN [raised |-> FALSE, value |-> RenderedPages(content.bad_page - 1)]
    ELSE [raised |-> FALSE, value |-> RenderedPages(content.pages)]

process_pdf_pages(content) ==
    IF ~content.opens \/ content.bad_page \in 1..content.pages
    THEN [raised |-> TRUE, value |-> <<>>]
    ELSE [raised |-> FALSE, value |-> RenderedPages(content.pages)]

(***************************************************************************)
(* ocr_helpers.py 64-75 and the pieces of ocr_service.py                   *)
(***************************************************************************)
err_pdf_prefix == <<"E","r","r","o","r"," ","p","r","o","c","e","s","s","i",
                    "n","g"," ","P","D","F",":"," ">>
err_image_prefix == <<"E","r","r","o","r"," ","p","r","o","c","e","s","s",
                      "i","n","g"," ","i","m","a","g","e",":"," ">>
err_document_prefix == <<"E","r","r","o","r"," ","p","r","o","c","e","s","s",
                         "i","n","g"," ","d","o","c","u","m","e","n","t",":",
                         " ">>
\* str(e) of the ValueErrors urlparse raises: on an unclosed '[' in the
\* host ('http://[::1/a.pdf'), on a bracketed IPv4 address
\* ('http://[1.2.3.4]/a.png') and on a bracketed name ('http://[foo]/a.pdf')
UrlparseErrors ==
    { <<"I","n","v","a","l","i","d"," ","I","P","v","6"," ","U","R","L">>,
      <<"A","n"," ","I","P","v","4"," ","a","d","d","r","e","s","s"," ","c",
        "a","n","n","o","t"," ","b","e"," ","i","n"," ","b","r","a","c","k",
        "e","t","s">>,
      <<"'","f","o","o","'"," ","d","o","e","s"," ","n","o","t"," ","a","p",
        "p","e","a","r"," ","t","o"," ","b","e"," ","a","n"," ","I","P","v",
        "4"," ","o","r"," ","I","P","v","6"," ","a","d","d","r","e","s","s">> }
page_marker_head == <<"\n","-","-","-"," ","P","a","g","e"," ">>
page_marker_tail == <<" ","-","-","-","\n">>
ext_pdf == <<".","p","d","f">>

create_error_response(error_message) ==
    [success |-> FALSE,
     error |-> error_message,
     plain_text |-> <<>>,
     structured_data |-> <<>>,
     key_value_pairs |-> EmptyDict,
     tables |-> <<>>,
     original_image_base64 |-> <<>>,
     metadata |-> EmptyDict]

\* ocr_service.py 148-149: item["page_number"] = page_num
WithPageNumber(item, page_num) ==
    [text |-> item.text, confidence |-> item.confidence, bbox |-> item.bbox,
     page_number |-> page_num]

PageSection_skipEmpty(page_num, text) ==
    IF text = <<>> THEN <<>>
    ELSE page_marker_head \o IntToStr(page_num) \o page_marker_tail \o text

ImageResult_failsOnEmpty(u, extraction_result, b64) ==
    IF extraction_result.structured_data = <<>>
    THEN create_error_response(err_image_prefix)
    ELSE [success |-> TRUE, source_url |-> u, file_type |-> "image",
          plain_text |-> extraction_result.plain_text,
          structured_data |-> extraction_result.structured_data,
          key_value_pairs |-> extraction_result.key_value_pairs,
          tables |-> extraction_result.tables,
          original_image_base64 |-> b64,
          metadata |-> [processing_info |-> extraction_result.metadata]]

\* ocr_service.py 75-91; the image dimensions are left out of the metadata
ImageResult(u, extraction_result, b64) ==
    [success |-> TRUE,
     source_url |-> u,
     file_type |-> "image",
     plain_text |-> extraction_result.plain_text,
     structured_data |-> extraction_result.structured_data,
     key_value_pairs |-> extraction_result.key_value_pairs,
     tables |-> extraction_result.tables,
     original_image_base64 |-> b64,
     metadata |-> [processing_info |-> extraction_result.metadata]]

\* ocr_service.py 163: f"\n--- Page {page_num} ---\n" + plain_text
PageSection(page_num, text) ==
    page_marker_head \o IntToStr(page_num) \o page_marker_tail \o text

\* ocr_service.py 45-48: the lower-cased extension decides the kind
IsPdfUrl(u) == LowerStr(u.ext) = ext_pdf

(***************************************************************************)
(* Idle values of each variable group, for the specifications that do not  *)
(* exercise it.                                                            *)
(***************************************************************************)
LayoutIdle ==
    /\ words_data = <<>> /\ lines = <<>> /\ key_value_pairs = EmptyDict
    /\ tables = <<>> /\ lpc = "idle"

RecogIdle ==
    /\ config_idx = 0 /\ best_text = <<>> /\ max_confidence = <<0, 1>>
    /\ elapsed = 0 /\ attempts = <<>> /\ plain_text = NoValue /\ rpc = "idle"
    /\ tried = <<>>

PreIdle ==
    /\ pre_image = NoValue /\ pre_fail_at = 0 /\ pre_result = NoValue
    /\ ppc = "idle"

DocIdle ==
    /\ url = NoValue /\ pc = "idle" /\ pages_data_raw = <<>>
    /\ all_pages_data = <<>> /\ combined_text = <<>> /\ combined_tables = <<>>
    /\ combined_kv_pairs = EmptyDict /\ combined_structured_data = <<>>
    /\ first_page_image_b64 = NoValue /\ all_page_images = <<>>
    /\ result = NoValue
    /\ fetch = "idle" /\ pdf_content = NoValue
    /\ fetch_calls = 0 /\ raster_calls = 0 /\ page_inputs = <<>>

ImageIdle ==
    /\ ipc = "idle" /\ page_image = NoValue /\ page_pre_fail = 0
    /\ page_ocr = NoValue
    /\ page_encodes = TRUE /\ original_image_b64 = NoValue
    /\ processed_image = NoValue /\ page_plain_text = NoValue
    /\ page_structured_data = NoValue /\ extracted = NoValue
    /\ image_result = NoValue /\ plain_runs = 0 /\ structured_runs = 0

RunIdle ==
    /\ run_pc = "idle" /\ call_no = 0 /\ workers = <<>> /\ cells = <<>>
    /\ observed = <<>> /\ run_best = NoValue

RasterIdle ==
    /\ raster_pc = "idle" /\ raster_content = NoValue
    /\ raster_faults = NoValue
    /\ tmp_file_exists = FALSE /\ doc_handle = "unbound" /\ pages_data = <<>>
    /\ raster_exit = NoValue

(***************************************************************************)
(* Layout reconstruction of one page: text_extractor.py 164-166 applied to *)
(* a token list returned by the structured pass.                           *)
(***************************************************************************)
MaxWords == 3
MaxMixedLines == 3
MaxRows == 52

\* token lists of up to MaxWords words on a coarse grid: every order, every
\* duplicate, chains of tops 10 apart
GridTokens ==
    {Token(<<"a">>, 90, left, top, 20) : left \in {0, 50}, top \in {0, 10, 20}}

GridWords == UNION {[1..n -> GridTokens] : n \in 0..MaxWords}

\* one visual line at row r (tops 30 apart), words given right to left
RowWords(kind, r) ==
    IF kind = "data"
    THEN <<Token(<<"z">> \o IntToStr(r), 90, 100, 30 * r, 20),
           Token(<<"y">> \o IntToStr(r), 90, 50, 30 * r, 20),
           Token(<<"x">> \o IntToStr(r), 90, 0, 30 * r, 20)>>
    ELSE IF kind = "header"
    THEN <<Token(<<"R","a","t","e">>, 90, 100, 30 * r, 20),
           Token(<<"Q","t","y">>, 90, 50, 30 * r, 20),
           Token(<<"N","o">>, 90, 0, 30 * r, 20)>>
    ELSE <<Token(<<"q">> \o IntToStr(r), 90, 50, 30 * r, 20),
           Token(<<"p">> \o IntToStr(r), 90, 0, 30 * r, 20)>>

PageWords(kinds) == Flatten([r \in 1..Len(kinds) |-> RowWords(kinds[r], r)])

LineKinds == {"data", "header", "short"}

\* every mix of up to MaxMixedLines lines
MixedPages ==
    {PageWords(kinds) :
        kinds \in UNION {[1..n -> LineKinds] : n \in 0..MaxMixedLines}}

\* long pages: an optional header and short line, then n data lines
LongPages ==
    {PageWords(prefix \o [r \in 1..n |-> "data"]) :
        prefix \in {<<>>, <<"header">>, <<"header", "short">>},
        n \in (table_row_cap - 1)..MaxRows}

MaxKVLines == 2

\* the words of one label line at row r, the last word first: left is where
\* the second word starts (the first one ends at 40)
LabelRow(first, second, left, r) ==
    <<Token(second, 90, left, 30 * r, 20), Token(first, 90, 0, 30 * r, 40)>>

KVKinds == {"invoice_a1", "invoice_a2", "short_key", "plain_key", "no_value",
            "date_empty", "colon_first", "single", "near", "far", "upper",
            "chain"}

KVRow(kind, r) ==
    CASE kind = "invoice_a1" ->
           <<Token(<<"A","1">>, 90, 80, 30 * r, 20)>>
               \o LabelRow(<<"I","n","v","o","i","c","e">>, <<"N","o",":">>, 50, r)
      [] kind = "invoice_a2" ->
           <<Token(<<"A","2">>, 90, 80, 30 * r, 20)>>
               \o LabelRow(<<"I","n","v","o","i","c","e">>, <<"N","o",":">>, 50, r)
      [] kind = "short_key" -> LabelRow(<<"a","b",":">>, <<"v">>, 50, r)
      [] kind = "plain_key" -> LabelRow(<<"A","b","c",":">>, <<"v">>, 50, r)
      [] kind = "no_value" -> LabelRow(<<"a","b","c">>, <<":">>, 50, r)
      [] kind = "date_empty" -> LabelRow(<<"D","a","t","e">>, <<":">>, 50, r)
      [] kind = "colon_first" ->
           <<Token(<<"5","0","0">>, 90, 100, 30 * r, 20)>>
               \o LabelRow(<<":">>, <<"T","o","t","a","l">>, 50, r)
      [] kind = "single" ->
           <<Token(<<"T","o","t","a","l",":","5">>, 90, 0, 30 * r, 40)>>
      [] kind = "near" ->
           LabelRow(<<"T","o","t","a","l">>, <<"5","0","0">>,
                    40 + adjacency_limit - 1, r)
      [] kind = "far" ->
           LabelRow(<<"T","o","t","a","l">>, <<"5","0","0">>,
                    40 + adjacency_limit, r)
      [] kind = "upper" -> LabelRow(<<"T","O","T","A","L">>, <<"7">>, 50, r)
      [] OTHER ->
           <<Token(<<"9">>, 90, 80, 30 * r, 20)>>
               \o LabelRow(<<"G","S","T">>, <<"T","o","t","a","l">>, 50, r)

\* every page of up to MaxKVLines label lines
KVPages ==
    {Flatten([r \in 1..Len(kinds) |-> KVRow(kinds[r], r)]) :
        kinds \in UNION {[1..n -> KVKinds] : n \in 1..MaxKVLines}}

LayoutInputs == GridWords \cup MixedPages \cup LongPages \cup KVPages

LayoutInit ==
    /\ words_data \in LayoutInputs
    /\ lines = <<>> /\ key_value_pairs = EmptyDict /\ tables = <<>>
    /\ lpc = "start"

\* text_extractor.py 164
GroupLines ==
    /\ lpc = "start"
    /\ lines' = group_words_into_lines(words_data)
    /\ lpc' = "grouped"
    /\ UNCHANGED <<words_data, key_value_pairs, tables>>
    /\ UNCHANGED <<recogVars, preVars, docVars, imageVars, runVars, rasterVars>>

\* text_extractor.py 165
ExtractKeyValuePairs ==
    /\ lpc = "grouped"
    /\ key_value_pairs' = extract_key_value_pairs_advanced(lines, FALSE)
    /\ lpc' = "pairs"
    /\ UNCHANGED <<words_data, lines, tables>>
    /\ UNCHANGED <<recogVars, preVars, docVars, imageVars, runVars, rasterVars>>

\* text_extractor.py 166
ExtractTables ==
    /\ lpc = "pairs"
    /\ tables' = extract_table_data_advanced(lines, FALSE)
    /\ lpc' = "done"
    /\ UNCHANGED <<words_data, lines, key_value_pairs>>
    /\ UNCHANGED <<recogVars, preVars, docVars, imageVars, runVars, rasterVars>>

InitLayout ==
    /\ LayoutInit /\ RecogIdle /\ PreIdle /\ DocIdle /\ ImageIdle /\ RunIdle
    /\ RasterIdle
NextLayout == GroupLines \/ ExtractKeyValuePairs \/ ExtractTables
SpecLayout == InitLayout /\ [][NextLayout]_vars

(***************************************************************************)
(* Properties of the layout reconstruction                                 *)
(***************************************************************************)
Grouped == lpc \in {"grouped", "pairs", "done"}

Tops(line) == {line[j].bbox.top : j \in 1..Len(line)}

Occurrences(seq, x) == Cardinality({i \in 1..Len(seq) : seq[i] = x})

IsPermutation(a, b) ==
    /\ Len(a) = Len(b)
    /\ \A i \in 1..Len(a) : Occurrences(a, a[i]) = Occurrences(b, a[i])

\* C2: every token of a returned line has a top within 10 units of the top of
\* the token that started the line, which is the least top of the line since
\* the scan runs in ascending top order. (Fails: the code compares with the
\* last token joined, so tops 0, 10, 20 chain into one line.)
C2_VerticalBand ==
    Grouped =>
        \A i \in 1..Len(lines) : \A j \in 1..Len(lines[i]) :
            lines[i][j].bbox.top - MinOf(Tops(lines[i])) <= 10

\* C3: the concatenation of the returned lines is a permutation of the input
\* tokens (nothing dropped, duplicated or invented), and no line is empty.
C3_LinesPartition ==
    Grouped =>
        /\ IsPermutation(Flatten(lines), words_data)
        /\ \A i \in 1..Len(lines) : lines[i] # <<>>

\* an input with a duplicated token, grouped into at least two lines
C3_Witness ==
    /\ lpc = "grouped"
    /\ Len(lines) >= 2
    /\ \E i, j \in 1..Len(words_data) : i < j /\ words_data[i] = words_data[j]

\* C4: in every returned line, the last one included, left coordinates are
\* non-decreasing.
C4_LeftsNonDecreasing ==
    Grouped =>
        \A i \in 1..Len(lines) : \A j \in 1..(Len(lines[i]) - 1) :
            lines[i][j].bbox.left <= lines[i][j + 1].bbox.left

\* the last of several lines holds two tokens that the input gave right to left
C4_Witness ==
    /\ lpc = "grouped"
    /\ Len(lines) >= 2
    /\ \E i, j \in 1..Len(words_data) :
          /\ i < j
          /\ words_data[i].bbox.left > words_data[j].bbox.left
          /\ words_data[i].bbox.top = words_data[j].bbox.top
          /\ words_data[i].bbox.top \in Tops(lines[Len(lines)])

\* the indices of the lines with at least 3 tokens and no header keyword in
\* their lowercased, space-joined text
QualifyingLines(ls) ==
    {i \in 1..Len(ls) :
        /\ Len(ls[i]) >= 3
        /\ \A keyword \in header_keywords :
              ~Contains(LowerStr(LineText(ls[i])), keyword)}

\* the k-th smallest element of a set of numbers
KthOf(S, k) == CHOOSE i \in S : Cardinality({j \in S : j <= i}) = k

\* C5: with Q the qualifying lines in order, the table is empty if |Q| < 2 and
\* otherwise holds the per-token texts of the first min(|Q|, 50) lines of Q.
C5_TableRows ==
    lpc = "done" =>
        LET Q == QualifyingLines(lines)
            n == IF Cardinality(Q) < 2 THEN 0
                 ELSE IF Cardinality(Q) < 50 THEN Cardinality(Q) ELSE 50
        IN  /\ Len(tables) = n
            /\ \A k \in 1..n :
                  tables[k] = [j \in 1..Len(lines[KthOf(Q, k)]) |->
                                  lines[KthOf(Q, k)][j].text]

\* more than 50 qualifying lines after a header line and a two-token line:
\* the table holds the first 50 of them
C5_Witness ==
    /\ lpc = "done"
    /\ Cardinality(QualifyingLines(lines)) > 50
    /\ Len(tables) = 50
    /\ \E i \in 1..Len(lines) : Len(lines[i]) = 2
    /\ \E i \in 1..Len(lines) :
          Len(lines[i]) >= 3 /\ i \notin QualifyingLines(lines)

\* a single qualifying line between a header line and a short one: empty table
C5_OneRowSeen ==
    /\ lpc = "done"
    /\ Cardinality(QualifyingLines(lines)) = 1
    /\ Len(lines) = 3

\* the lines of the page that the colon rule looks at
ColonLines ==
    {i \in 1..Len(lines) :
        Len(lines[i]) >= 2 /\ \E t \in 1..Len(lines[i]) : Contains(lines[i][t].text, <<":">>)}

\* the text of line i before and after its first colon
ColonKey(i) == LowerStr(Strip(SplitFirstColon(LineText(lines[i]))[1]))
ColonValue(i) == Strip(SplitFirstColon(LineText(lines[i]))[2])

\* the condition of the claim for recording the pair of colon line i
ColonRecorded(i) ==
    \/ MatchesKeyPattern(ColonKey(i))
    \/ /\ 2 < Len(ColonKey(i)) /\ Len(ColonKey(i)) < 50
       /\ 0 < Len(ColonValue(i)) /\ Len(ColonValue(i)) < 200

\* the adjacent pairs <<i, t>> (token t and t + 1 of line i) that the
\* adjacency rule records
AdjacentRecorded ==
    {p \in UNION {{<<i, t>> : t \in 1..(Len(lines[i]) - 1)} :
                     i \in (1..Len(lines)) \ ColonLines} :
        /\ MatchesKeyPattern(lines[p[1]][p[2]].text)
        /\ lines[p[1]][p[2] + 1].bbox.left
               - (lines[p[1]][p[2]].bbox.left + lines[p[1]][p[2]].bbox.width) < 100}

\* every recorded pair as <<line, token, key, value>>, token 0 for a colon line
Recorded ==
    {<<i, 0, ColonKey(i), ColonValue(i)>> : i \in {j \in ColonLines : ColonRecorded(j)}}
    \cup {<<p[1], p[2], LowerStr(lines[p[1]][p[2]].text), lines[p[1]][p[2] + 1].text>> :
              p \in AdjacentRecorded}

\* c comes after d in line/token order
After(c, d) == c[1] > d[1] \/ (c[1] = d[1] /\ c[2] > d[2])

KVDone == lpc \in {"pairs", "done"}

\* C13: a colon line of at least 2 tokens is split at its first colon into
\* the trimmed lower-case key and the trimmed value, and the pair is in the
\* result exactly when the key matches a pattern or 2 < len(key) < 50 and
\* 0 < len(value) < 200 (unless a later line overwrites it); lines of one
\* token give nothing and a colon line gives no adjacent-token pair, so
\* every key of the result comes from a recorded pair.
C13_ColonRule ==
    KVDone =>
        /\ \A i \in ColonLines :
              IF ColonRecorded(i)
              THEN /\ ColonKey(i) \in DOMAIN key_value_pairs
                   /\ (\A c \in Recorded : c[3] = ColonKey(i) => ~After(c, <<i, 0>>))
                         => key_value_pairs[ColonKey(i)] = ColonValue(i)
              ELSE (\A c \in Recorded : c[3] # ColonKey(i))
                         => ColonKey(i) \notin DOMAIN key_value_pairs
        /\ \A k \in DOMAIN key_value_pairs : \E c \in Recorded : c[3] = k

\* 'Invoice No: A1' gives 'invoice no' -> 'A1', and ': Total 500' nothing
C13_Witness ==
    /\ KVDone
    /\ Len(lines) = 2
    /\ LineText(lines[1]) = <<"I","n","v","o","i","c","e"," ","N","o",":"," ","A","1">>
    /\ LineText(lines[2]) = <<":"," ","T","o","t","a","l"," ","5","0","0">>
    /\ DOMAIN key_value_pairs = {<<"i","n","v","o","i","c","e"," ","n","o">>}
    /\ key_value_pairs[<<"i","n","v","o","i","c","e"," ","n","o">>] = <<"A","1">>

\* 'Abc: v' is recorded by its lengths, 'ab: v' is not
C13_LengthRuleSeen ==
    /\ KVDone
    /\ Len(lines) = 2
    /\ LineText(lines[1]) = <<"A","b","c",":"," ","v">>
    /\ LineText(lines[2]) = <<"a","b",":"," ","v">>
    /\ DOMAIN key_value_pairs = {<<"a","b","c">>}

\* 'Date :' is recorded with an empty value, 'abc :' is not
C13_EmptyValueSeen ==
    /\ KVDone
    /\ Len(lines) = 2
    /\ LineText(lines[1]) = <<"D","a","t","e"," ",":">>
    /\ LineText(lines[2]) = <<"a","b","c"," ",":">>
    /\ DOMAIN key_value_pairs = {<<"d","a","t","e">>}
    /\ key_value_pairs[<<"d","a","t","e">>] = <<>>

\* C14: in a line of at least 2 tokens without a colon, the adjacent pair
\* (a, b) is recorded as lower(a.text) -> b.text exactly when a.text matches
\* a pattern and b.left - (a.left + a.width) < 100; of several recorded
\* pairs with one key the result holds the value of the last one in
\* line/token order.
C14_AdjacencyRule ==
    KVDone =>
        /\ \A p \in AdjacentRecorded :
              LowerStr(lines[p[1]][p[2]].text) \in DOMAIN key_value_pairs
        /\ \A k \in DOMAIN key_value_pairs :
              \E c \in Recorded :
                  /\ c[3] = k
                  /\ key_value_pairs[k] = c[4]
                  /\ \A d \in Recorded : d[3] = k => ~After(d, c)

\* 'Total 500' with a gap of 99, then 'TOTAL 7': the later value is kept
C14_Witness ==
    /\ KVDone
    /\ Len(lines) = 2
    /\ LineText(lines[1]) = <<"T","o","t","a","l"," ","5","0","0">>
    /\ lines[1][2].bbox.left - (lines[1][1].bbox.left + lines[1][1].bbox.width) = 99
    /\ LineText(lines[2]) = <<"T","O","T","A","L"," ","7">>
    /\ DOMAIN key_value_pairs = {<<"t","o","t","a","l">>}
    /\ key_value_pairs[<<"t","o","t","a","l">>] = <<"7">>

\* a gap of exactly 100 records nothing; 'GST Total 9' records two pairs
C14_GapSeen ==
    /\ KVDone
    /\ Len(lines) = 2
    /\ LineText(lines[1]) = <<"T","o","t","a","l"," ","5","0","0">>
    /\ lines[1][2].bbox.left - (lines[1][1].bbox.left + lines[1][1].bbox.width) = 100
    /\ LineText(lines[2]) = <<"G","S","T"," ","T","o","t","a","l"," ","9">>
    /\ DOMAIN key_value_pairs = {<<"g","s","t">>, <<"t","o","t","a","l">>}
    /\ key_value_pairs[<<"g","s","t">>] = <<"T","o","t","a","l">>
    /\ key_value_pairs[<<"t","o","t","a","l">>] = <<"9">>

(***************************************************************************)
(* The profile loop and the fallback of extract_plain_text_advanced, one   *)
(* action per run_with_timeout call.                                       *)
(***************************************************************************)
DataOutcome(conf, text, dur) ==
    [kind |-> "data", conf |-> conf, text |-> text, result |-> <<>>, dur |-> dur]
StringOutcome(str, dur) ==
    [kind |-> "data", conf |-> <<>>, text |-> <<>>, result |-> str, dur |-> dur]
TimeoutOutcome(dur) ==
    [kind |-> "timeout", conf |-> <<>>, text |-> <<>>, result |-> <<>>, dur |-> dur]
RaiseOutcome(dur) ==
    [kind |-> "raise", conf |-> <<>>, text |-> <<>>, result |-> <<>>, dur |-> dur]

FastSeconds == 1
SlowSeconds == attempt_timeout_seconds + 1

\* image_to_data results: a word, a blank token the engine rates 90, a better
\* word, a tie, no positive confidence at all, and two words averaging 50
ProfileData ==
    { DataOutcome(<<50>>, <<<<"a">>>>, FastSeconds),
      DataOutcome(<<90>>, <<<<" ">>>>, FastSeconds),
      DataOutcome(<<90>>, <<<<"b">>>>, FastSeconds),
      DataOutcome(<<50>>, <<<<"b">>>>, FastSeconds),
      DataOutcome(<<-1, 0>>, <<<<>>, <<"c">>>>, FastSeconds),
      DataOutcome(<<-1, 40, 60>>, <<<<>>, <<"a">>, <<"b">>>>, FastSeconds) }

\* image_to_string results: nothing, the form feed that ends a page with
\* nothing on it, or text with its trailing newline and form feed
FallbackData ==
    { StringOutcome(<<>>, FastSeconds),
      StringOutcome(<<"\f">>, FastSeconds),
      StringOutcome(<<"x", "\n">>, FastSeconds),
      StringOutcome(<<"x", "\n", "\f">>, FastSeconds) }

RecogInit ==
    /\ config_idx = 0 /\ best_text = <<>> /\ max_confidence = <<0, 1>>
    /\ elapsed = 0 /\ attempts = <<>> /\ plain_text = NoValue /\ rpc = "loop"
    /\ tried = <<>>

LoopContinues_noBudget ==
    /\ rpc = "loop"
    /\ config_idx < Len(configs_to_test)

\* text_extractor.py 32-35: the loop goes on to another profile
LoopContinues ==
    /\ rpc = "loop"
    /\ config_idx < Len(configs_to_test)
    /\ ~(elapsed > total_timeout_seconds)

Attempt(outcome) ==
    /\ LoopContinues
    /\ LET st == ProfileStep([best_text |-> best_text,
                              max_confidence |-> max_confidence], outcome)
       IN  /\ best_text' = st.best_text
           /\ max_confidence' = st.max_confidence
    /\ config_idx' = config_idx + 1
    /\ elapsed' = elapsed + outcome.dur
    /\ attempts' = Append(attempts, outcome)
    /\ tried' = Append(tried, [config |-> configs_to_test[config_idx + 1],
                               at |-> elapsed])
    /\ UNCHANGED <<plain_text, rpc>>
    /\ UNCHANGED <<layoutVars, preVars, docVars, imageVars, runVars,
                   rasterVars>>

\* text_extractor.py 43-58: the attempt returned data
AttemptReturned == \E outcome \in ProfileData : Attempt(outcome)

\* text_extractor.py 45-47: run_with_timeout gave up after 60 s
AttemptTimedOut == Attempt(TimeoutOutcome(SlowSeconds))

\* text_extractor.py 60-62: the attempt raised
AttemptRaised == Attempt(RaiseOutcome(FastSeconds))

\* text_extractor.py 32-35: every profile tried, or the 180 s are over
LoopExit ==
    /\ rpc = "loop"
    /\ \/ config_idx = Len(configs_to_test)
       \/ elapsed > total_timeout_seconds
    /\ rpc' = "after_loop"
    /\ UNCHANGED <<config_idx, best_text, max_confidence, elapsed, attempts,
                   plain_text, tried>>
    /\ UNCHANGED <<layoutVars, preVars, docVars, imageVars, runVars,
                   rasterVars>>

\* text_extractor.py 65, 83-84: a usable best text is returned as it is
ReturnBest ==
    /\ rpc = "after_loop"
    /\ ~NeedsFallback(best_text)
    /\ plain_text' = Strip(best_text)
    /\ rpc' = "done"
    /\ UNCHANGED <<config_idx, best_text, max_confidence, elapsed, attempts,
                   tried>>
    /\ UNCHANGED <<layoutVars, preVars, docVars, imageVars, runVars,
                   rasterVars>>

Fallback(outcome) ==
    /\ rpc = "after_loop"
    /\ NeedsFallback(best_text)
    /\ best_text' = FallbackResult(best_text, outcome)
    /\ plain_text' = Strip(best_text')
    /\ attempts' = Append(attempts, outcome)
    /\ rpc' = "done"
    /\ UNCHANGED <<config_idx, max_confidence, elapsed, tried>>
    /\ UNCHANGED <<layoutVars, preVars, docVars, imageVars, runVars,
                   rasterVars>>

\* text_extractor.py 71-74
FallbackReturned == \E outcome \in FallbackData : Fallback(outcome)

\* text_extractor.py 75-77
FallbackTimedOut == Fallback(TimeoutOutcome(fallback_timeout_seconds))

\* text_extractor.py 79-81
FallbackRaised == Fallback(RaiseOutcome(FastSeconds))

InitRecog ==
    /\ RecogInit /\ LayoutIdle /\ PreIdle /\ DocIdle /\ ImageIdle /\ RunIdle
    /\ RasterIdle
NextRecog ==
    \/ AttemptReturned \/ AttemptTimedOut \/ AttemptRaised \/ LoopExit
    \/ ReturnBest \/ FallbackReturned \/ FallbackTimedOut \/ FallbackRaised
SpecRecog == InitRecog /\ [][NextRecog]_vars

(***************************************************************************)
(* Properties of the profile loop                                          *)
(***************************************************************************)
\* the attempts that completed with a mean confidence: data came back and
\* some token has a confidence above 0
Completed(i) ==
    /\ i <= config_idx
    /\ attempts[i].kind = "data"
    /\ \E k \in 1..Len(attempts[i].conf) : attempts[i].conf[k] > 0

\* sum and count of the confidences above 0 of attempt i
MeanSum(i) ==
    SumSeq([k \in 1..Len(attempts[i].conf) |->
               IF attempts[i].conf[k] > 0 THEN attempts[i].conf[k] ELSE 0])
MeanCount(i) ==
    Cardinality({k \in 1..Len(attempts[i].conf) : attempts[i].conf[k] > 0})

\* mean of attempt i >= mean of attempt j
MeanAtLeast(i, j) == MeanSum(i) * MeanCount(j) >= MeanSum(j) * MeanCount(i)

\* the non-blank token texts of attempt i, one per line
AttemptText(i) == Join(<<"\n">>, SelectSeq(attempts[i].text, IsNotBlank))

NonEmptyAttempts ==
    {i \in 1..Len(attempts) : Completed(i) /\ AttemptText(i) # <<>>}

\* C1: when the profile loop ends, the best text is the text of the attempt
\* with the greatest mean confidence among the completed attempts with
\* non-empty text, the earliest one on a tie. (Fails: an attempt whose tokens
\* are all blank but rated higher replaces or blocks the non-empty best.)
C1_BestNonEmptyText ==
    (rpc = "after_loop" /\ NonEmptyAttempts # {}) =>
        \E i \in NonEmptyAttempts :
            /\ best_text = AttemptText(i)
            /\ \A j \in NonEmptyAttempts : MeanAtLeast(i, j)
            /\ \A j \in NonEmptyAttempts : j < i => ~MeanAtLeast(j, i)

\* the step from the end of the loop to the return ran the fallback pass
FallbackRan == attempts' # attempts

\* what the fallback pass did, when it ran
FallbackOutcome == attempts'[Len(attempts')]

\* C12: the fallback pass runs once, and only when the loop ended with a
\* blank best text; the returned text is the time-out sentinel exactly when
\* the fallback timed out and the failure sentinel exactly when it raised;
\* a non-blank best text is returned as it is, never a sentinel.
C12_FallbackChain ==
    [][(rpc = "after_loop" /\ rpc' = "done") =>
          /\ FallbackRan <=> Strip(best_text) = <<>>
          /\ Len(attempts') <= Len(attempts) + 1
          /\ plain_text' = msg_timed_out
                <=> (FallbackRan /\ FallbackOutcome.kind = "timeout")
          /\ plain_text' = msg_failed
                <=> (FallbackRan /\ FallbackOutcome.kind = "raise")
          /\ ~FallbackRan => plain_text' = Strip(best_text)]_vars

\* every profile ran without a usable text and the fallback timed out
C12_Witness ==
    /\ rpc = "done"
    /\ config_idx = Len(configs_to_test)
    /\ Len(attempts) = config_idx + 1
    /\ attempts[1].kind = "data"
    /\ attempts[Len(attempts)].kind = "timeout"
    /\ plain_text = msg_timed_out

\* the failure sentinel, and a best text returned without the fallback
C12_FailedSeen ==
    /\ rpc = "done" /\ Len(attempts) = config_idx + 1
    /\ attempts[Len(attempts)].kind = "raise" /\ plain_text = msg_failed

C12_BestReturnedSeen ==
    /\ rpc = "done" /\ Len(attempts) = config_idx /\ plain_text = <<"b">>

\* C19: the profiles are tried in the order of configs_to_test, each at
\* most once; an attempt starts only while no more than 180 s have passed
\* since the loop started, and once more have passed the remaining profiles
\* are skipped; an attempt that times out or raises changes nothing but the
\* position in the list (and the clock).
C19_BudgetAndOrder ==
    /\ [](/\ Len(tried) = config_idx
          /\ Len(tried) <= Len(configs_to_test)
          /\ \A i \in 1..Len(tried) :
                /\ tried[i].config = configs_to_test[i]
                /\ tried[i].at <= 180
          /\ configs_to_test = <<"default", "uniform_text", "single_block",
                                 "sparse_text", "sparse_text_osd">>
          /\ (rpc \in {"after_loop", "done"} /\ config_idx < Len(configs_to_test))
                => elapsed > 180)
    /\ [][(rpc = "loop" /\ tried' # tried /\ attempts'[Len(attempts')].kind # "data")
            => /\ config_idx' = config_idx + 1
               /\ best_text' = best_text
               /\ max_confidence' = max_confidence
               /\ rpc' = "loop"]_vars

\* three attempts timed out, 183 s have passed and two profiles are skipped
C19_Witness ==
    /\ rpc = "after_loop"
    /\ config_idx = 3
    /\ Len(tried) = 3
    /\ elapsed > 180
    /\ \A i \in 1..3 : attempts[i].kind = "timeout"

\* all five tried, the third raised after the first found a text
C19_AllTriedSeen ==
    /\ rpc = "after_loop" /\ Len(tried) = Len(configs_to_test)
    /\ attempts[1].kind = "data" /\ attempts[3].kind = "raise"
    /\ best_text = <<"a">>

(***************************************************************************)
(* The preprocessor applied to one raster, with a failure at any step      *)
(***************************************************************************)
MaxRasters == 2

ImageModes == {"RGB", "L", "RGBA", "P", "CMYK"}

PreInit ==
    /\ pre_image \in {[id |-> i, mode |-> m, ops |-> <<>>] :
                         i \in 1..MaxRasters, m \in ImageModes}
    /\ pre_fail_at \in 0..Len(pre_steps)
    \* the conversion to RGB cannot fail where it does not run
    /\ pre_fail_at = 1 => pre_image.mode # "RGB"
    /\ pre_result = NoValue
    /\ ppc = "start"

\* image_processor.py 50-92
Preprocess ==
    /\ ppc = "start"
    /\ pre_result' = preprocess_image_advanced(pre_image, pre_fail_at)
    /\ ppc' = "done"
    /\ UNCHANGED <<pre_image, pre_fail_at>>
    /\ UNCHANGED <<layoutVars, recogVars, docVars, imageVars, runVars,
                   rasterVars>>

InitPre ==
    /\ PreInit /\ LayoutIdle /\ RecogIdle /\ DocIdle /\ ImageIdle /\ RunIdle
    /\ RasterIdle
NextPre == Preprocess
SpecPre == InitPre /\ [][NextPre]_vars

\* C10: the preprocessor always returns, and when a step fails it returns the
\* raster it was given, unmodified. (Fails: after convert('RGB') has rebound
\* pil_image, a later failure returns the converted copy.)
C10_OriginalOnFailure ==
    (ppc = "done" /\ pre_fail_at # 0) => pre_result = pre_image

(***************************************************************************)
(* OCRService.process_document_from_url (ocr_service.py 33-194)            *)
(***************************************************************************)
MaxPages == 3

\* a url is the extension of its path and what urlparse raises on it:
\* nothing, or a ValueError with its text
Urls == [ext : {<<".","p","d","f">>, <<".","P","D","F">>, <<".","p","n","g">>,
                <<>>},
         raises : {<<>>} \cup {<<e>> : e \in UrlparseErrors}]

\* str(e) of the exception a failed download or rasterization raises
ErrorTexts == {<<>>, <<"4","0","4">>}

PdfContents ==
    {content \in [pages : 1..MaxPages, bad_page : 0..MaxPages, opens : BOOLEAN] :
        content.bad_page <= content.pages}

\* the columns of image_to_data for a token list
EntriesOf(words) ==
    [i \in 1..Len(words) |->
        [text |-> words[i].text, conf |-> words[i].confidence,
         left |-> words[i].bbox.left, top |-> words[i].bbox.top,
         width |-> words[i].bbox.width]]

\* the engine reads the page the same way in every pass
ReadablePage(words) ==
    [profiles |-> [i \in 1..Len(configs_to_test) |->
                      DataOutcome([k \in 1..Len(words) |-> words[k].confidence],
                                  [k \in 1..Len(words) |-> words[k].text],
                                  FastSeconds)],
     fallback |-> StringOutcome(<<>>, FastSeconds),
     structured |-> [kind |-> "data", entries |-> EntriesOf(words)],
     layout_faults |-> {}]

\* a blank page: every pass returns, with nothing in it
BlankPage ==
    [profiles |-> [i \in 1..Len(configs_to_test) |->
                      DataOutcome(<<>>, <<>>, FastSeconds)],
     fallback |-> StringOutcome(<<>>, FastSeconds),
     structured |-> [kind |-> "data", entries |-> <<>>],
     layout_faults |-> {}]

\* a page on which every pass times out
StuckPage ==
    [profiles |-> [i \in 1..Len(configs_to_test) |-> TimeoutOutcome(SlowSeconds)],
     fallback |-> TimeoutOutcome(fallback_timeout_seconds),
     structured |-> [kind |-> "timeout", entries |-> <<>>],
     layout_faults |-> {}]

\* the line "Invoice No: <value>", and "Date: <value>"
InvoiceLine(value, top) ==
    <<Token(<<"I","n","v","o","i","c","e">>, 90, 0, top, 60),
      Token(<<"N","o",":">>, 90, 70, top, 30),
      Token(value, 90, 110, top, 20)>>

DateLine(value, top) ==
    <<Token(<<"D","a","t","e",":">>, 90, 0, top, 40),
      Token(value, 90, 50, top, 20)>>

\* a header and table lines, one more than half the row cap, so that two
\* such pages exceed it
TablePageWords ==
    PageWords(<<"header">> \o [r \in 1..((table_row_cap \div 2) + 1) |-> "data"])

PageReadings ==
    { BlankPage, StuckPage,
      ReadablePage(InvoiceLine(<<"A","1">>, 0) \o DateLine(<<"D","1">>, 30)),
      ReadablePage(InvoiceLine(<<"A","2">>, 0)),
      ReadablePage(TablePageWords) }

\* what a page can be: a reading whose preprocessing and preview encoding
\* go through, a blank page whose preview fails to encode, and pages on
\* which a step of the preprocessor and layout steps raise (a blank one, one
\* on which every pass times out, a readable one). A page rendered from a
\* document is RGB, so the conversion of step 1 is not among the steps that
\* fail. extraction is the value extract_all_data_advanced (ocr_service.py
\* 145) returns for the reading
PageCases ==
    {[ocr |-> c[1], pre_fail_at |-> c[2], encodes |-> c[3],
      extraction |-> extract_all_data_advanced(c[1])] :
        c \in ({<<ocr, 0, TRUE>> : ocr \in PageReadings}
               \cup {<<BlankPage, 0, FALSE>>,
                      <<[BlankPage EXCEPT !.layout_faults = {"group"}],
                        2, TRUE>>,
                      <<[StuckPage EXCEPT !.layout_faults = {"kv", "table"}],
                        Len(pre_steps), TRUE>>,
                      <<[ReadablePage(InvoiceLine(<<"A","1">>, 0))
                            EXCEPT !.layout_faults = layout_steps],
                        5, TRUE>>})}

\* ocr_service.py 72 and 142: the raster handed to the engine, with what the
\* page was given
PageInput(pil_image, case) ==
    [ocr |-> case.ocr,
     pre_fail_at |-> case.pre_fail_at,
     processed_image |-> preprocess_image_advanced(pil_image,
                                                   case.pre_fail_at)]

DocInit ==
    /\ url \in Urls
    /\ pc = "start"
    /\ pages_data_raw = <<>> /\ all_pages_data = <<>> /\ combined_text = <<>>
    /\ combined_tables = <<>> /\ combined_kv_pairs = EmptyDict
    /\ combined_structured_data = <<>> /\ first_page_image_b64 = NoValue
    /\ all_page_images = <<>> /\ result = NoValue
    /\ fetch = "pending" /\ pdf_content = NoValue
    /\ fetch_calls = 0 /\ raster_calls = 0 /\ page_inputs = <<>>

pdfLocals == <<pages_data_raw, all_pages_data, combined_text, combined_tables,
               combined_kv_pairs, combined_structured_data,
               first_page_image_b64, all_page_images>>

\* ocr_service.py 43-55: when urlparse raises, the except of 53-55 answers
\* with str(e) and without any download; otherwise the extension decides
Dispatch ==
    /\ pc = "start"
    /\ IF url.raises # <<>>
       THEN /\ result' = create_error_response(err_document_prefix
                                                   \o url.raises[1])
            /\ pc' = "done"
       ELSE /\ pc' = IF IsPdfUrl(url) THEN "pdf_download"
                     ELSE "image_download"
            /\ UNCHANGED result
    /\ UNCHANGED <<url, page_inputs, pdfLocals, fetch, pdf_content, fetch_calls,
                   raster_calls>>
    /\ UNCHANGED <<layoutVars, recogVars, preVars, imageVars, runVars,
                   rasterVars>>

\* ocr_service.py 111, image_processor.py 35-47: the download succeeds
DownloadPdf ==
    /\ pc = "pdf_download"
    /\ \E content \in PdfContents : pdf_content' = content
    /\ fetch' = "ok"
    /\ fetch_calls' = fetch_calls + 1
    /\ pc' = "pdf_rasterize"
    /\ UNCHANGED <<url, page_inputs, pdfLocals, result, raster_calls>>
    /\ UNCHANGED <<layoutVars, recogVars, preVars, imageVars, runVars,
                   rasterVars>>

\* ocr_service.py 111, 192-194: network error, bad status or timeout
DownloadPdfFails ==
    /\ pc = "pdf_download"
    /\ fetch' = "failed"
    /\ fetch_calls' = fetch_calls + 1
    /\ \E e \in ErrorTexts : result' = create_error_response(err_pdf_prefix \o e)
    /\ pc' = "done"
    /\ UNCHANGED <<url, page_inputs, pdfLocals, pdf_content, raster_calls>>
    /\ UNCHANGED <<layoutVars, recogVars, preVars, imageVars, runVars,
                   rasterVars>>

\* ocr_service.py 114-122, 192-194
RasterizePdf ==
    /\ pc = "pdf_rasterize"
    /\ raster_calls' = raster_calls + 1
    /\ LET got == process_pdf_pages(pdf_content)
       IN  IF got.raised
           THEN /\ \E e \in ErrorTexts :
                      result' = create_error_response(err_pdf_prefix \o e)
                /\ pc' = "done"
                /\ UNCHANGED pdfLocals
           ELSE /\ pages_data_raw' = got.value
                /\ pc' = "pdf_pages"
                /\ UNCHANGED <<all_pages_data, combined_text, combined_tables,
                               combined_kv_pairs, combined_structured_data,
                               first_page_image_b64, all_page_images, result>>
    /\ UNCHANGED <<url, page_inputs, fetch, pdf_content, fetch_calls>>
    /\ UNCHANGED <<layoutVars, recogVars, preVars, imageVars, runVars,
                   rasterVars>>

\* ocr_service.py 124-166: one iteration of the loop over pages_data_raw
ProcessPage ==
    /\ pc = "pdf_pages"
    /\ Len(all_pages_data) < Len(pages_data_raw)
    /\ \E case \in PageCases :
        LET page_data == pages_data_raw[Len(all_pages_data) + 1]
            page_num == page_data.page_number
            page_image_b64 == image_to_base64(page_data.pil_image, case.encodes)
            page_extraction == case.extraction
            items == [i \in 1..Len(page_extraction.structured_data) |->
                         WithPageNumber(page_extraction.structured_data[i],
                                        page_num)]
            page_result == [page_number |-> page_num,
                            plain_text |-> page_extraction.plain_text,
                            structured_data |-> items,
                            key_value_pairs |-> page_extraction.key_value_pairs,
                            tables |-> page_extraction.tables,
                            page_image_base64 |-> page_image_b64]
        IN  /\ first_page_image_b64' =
                   IF page_num = 1 THEN page_image_b64 ELSE first_page_image_b64
            /\ all_page_images' =
                   Append(all_page_images, [page_number |-> page_num,
                                            image_base64 |-> page_image_b64])
            /\ all_pages_data' = Append(all_pages_data, page_result)
            /\ combined_text' =
                   combined_text \o PageSection(page_num, page_extraction.plain_text)
            /\ combined_tables' = combined_tables \o page_extraction.tables
            /\ combined_kv_pairs' =
                   DictUpdate(combined_kv_pairs, page_extraction.key_value_pairs)
            /\ combined_structured_data' = combined_structured_data \o items
            /\ page_inputs' =
                   Append(page_inputs, PageInput(page_data.pil_image, case))
    /\ UNCHANGED <<url, pc, pages_data_raw, result, fetch, pdf_content,
                   fetch_calls, raster_calls>>
    /\ UNCHANGED <<layoutVars, recogVars, preVars, imageVars, runVars,
                   rasterVars>>

\* ocr_service.py 168-190
AssemblePdf ==
    /\ pc = "pdf_pages"
    /\ Len(all_pages_data) = Len(pages_data_raw)
    /\ result' = [success |-> TRUE,
                  source_url |-> url,
                  file_type |-> "pdf",
                  plain_text |-> Strip(combined_text),
                  structured_data |-> combined_structured_data,
                  key_value_pairs |-> combined_kv_pairs,
                  tables |-> combined_tables,
                  original_image_base64 |-> first_page_image_b64,
                  all_page_images |-> all_page_images,
                  pages_data |-> all_pages_data,
                  metadata |-> [total_pages |-> Len(pages_data_raw),
                                pages_processed |-> Len(all_pages_data),
                                all_page_images_stored |-> Len(all_page_images)]]
    /\ pc' = "done"
    /\ UNCHANGED <<url, page_inputs, pdfLocals, fetch, pdf_content, fetch_calls,
                   raster_calls>>
    /\ UNCHANGED <<layoutVars, recogVars, preVars, imageVars, runVars,
                   rasterVars>>

\* ocr_service.py 69-93: the image is fetched and processed as one page
ProcessImage ==
    /\ pc = "image_download"
    /\ fetch' = "ok"
    /\ fetch_calls' = fetch_calls + 1
    /\ \E case \in PageCases :
        LET pil_image == [id |-> 1, mode |-> "RGB", ops |-> <<>>]
        IN  /\ result' = ImageResult(url, case.extraction,
                                     image_to_base64(pil_image, case.encodes))
            /\ page_inputs' = <<PageInput(pil_image, case)>>
    /\ pc' = "done"
    /\ UNCHANGED <<url, pdfLocals, pdf_content, raster_calls>>
    /\ UNCHANGED <<layoutVars, recogVars, preVars, imageVars, runVars,
                   rasterVars>>

\* ocr_service.py 69, 95-97: network error, bad status, timeout or no image
DownloadImageFails ==
    /\ pc = "image_download"
    /\ fetch' = "failed"
    /\ fetch_calls' = fetch_calls + 1
    /\ \E e \in ErrorTexts : result' = create_error_response(err_image_prefix \o e)
    /\ pc' = "done"
    /\ UNCHANGED <<url, page_inputs, pdfLocals, pdf_content, raster_calls>>
    /\ UNCHANGED <<layoutVars, recogVars, preVars, imageVars, runVars,
                   rasterVars>>

InitDoc ==
    /\ DocInit /\ LayoutIdle /\ RecogIdle /\ PreIdle /\ ImageIdle /\ RunIdle
    /\ RasterIdle
NextDoc ==
    \/ Dispatch \/ DownloadPdf \/ DownloadPdfFails \/ RasterizePdf
    \/ ProcessPage \/ AssemblePdf \/ ProcessImage \/ DownloadImageFails
SpecDoc == InitDoc /\ [][NextDoc]_vars

(***************************************************************************)
(* Properties of the document pipeline                                     *)
(***************************************************************************)
PdfDone == pc = "done" /\ result.success /\ result.file_type = "pdf"

\* C6: the tables of a returned document never hold more than 50 rows.
\* (Fails: the cap is per page, and the rows of the pages are concatenated.)
C6_DocumentTableBound ==
    (pc = "done" /\ result.success) => Len(result.tables) <= 50

\* the pages on which key k was extracted
PagesWithKey(pages, k) ==
    {i \in 1..Len(pages) : k \in DOMAIN pages[i].key_value_pairs}

\* the index of the highest-numbered page among the indices I
HighestPage(pages, I) ==
    CHOOSE i \in I : \A j \in I : pages[j].page_number <= pages[i].page_number

\* C7: the document's key-value pairs map every key extracted on some page
\* to its value on the highest-numbered page that has it.
C7_KeyValueMerge ==
    PdfDone =>
        LET pages == result.pages_data
            keys == UNION {DOMAIN pages[i].key_value_pairs : i \in 1..Len(pages)}
        IN  /\ DOMAIN result.key_value_pairs = keys
            /\ \A k \in keys :
                  result.key_value_pairs[k] =
                      pages[HighestPage(pages, PagesWithKey(pages, k))]
                          .key_value_pairs[k]

key_invoice_no == <<"i","n","v","o","i","c","e"," ","n","o">>
key_date == <<"d","a","t","e">>

\* 'invoice no' is A1 on page 1 and A2 on page 2, 'date' is on page 1 only:
\* the document has A2 and page 1's date
C7_Witness ==
    /\ PdfDone
    /\ Len(result.pages_data) = 2
    /\ DOMAIN result.pages_data[1].key_value_pairs = {key_invoice_no, key_date}
    /\ DOMAIN result.pages_data[2].key_value_pairs = {key_invoice_no}
    /\ result.pages_data[1].key_value_pairs[key_invoice_no] = <<"A", "1">>
    /\ result.key_value_pairs[key_invoice_no] = <<"A", "2">>
    /\ result.key_value_pairs[key_date] = <<"D", "1">>

\* where sub occurs in text
Positions(text, sub) ==
    {i \in 1..(Len(text) - Len(sub) + 1) : SubSeq(text, i, i + Len(sub) - 1) = sub}

marker_start == <<"-","-","-"," ","P","a","g","e"," ">>
MarkerOf(k) == marker_start \o IntToStr(k) \o <<" ","-","-","-">>

\* C8: a rasterized N-page document has N per-page results numbered 1..N in
\* order, N preview images in the same order, and a plain text with exactly N
\* page markers, one per page, in page order.
C8_PagesAndMarkers ==
    PdfDone =>
        LET n == pdf_content.pages
            text == result.plain_text
        IN  /\ Len(result.pages_data) = n
            /\ \A i \in 1..n : result.pages_data[i].page_number = i
            /\ Len(result.all_page_images) = n
            /\ \A i \in 1..n : result.all_page_images[i].page_number = i
            /\ Cardinality(Positions(text, marker_start)) = n
            /\ \A k \in 1..n : Cardinality(Positions(text, MarkerOf(k))) = 1
            /\ \A k \in 1..(n - 1) :
                  \A i \in Positions(text, MarkerOf(k)) :
                      \A j \in Positions(text, MarkerOf(k + 1)) : i < j

\* three pages, the first and the last with no text of their own
C8_Witness ==
    /\ PdfDone
    /\ pdf_content.pages = 3
    /\ result.pages_data[1].plain_text = <<>>
    /\ result.pages_data[2].plain_text # <<>>
    /\ result.pages_data[3].plain_text = <<>>

\* the fetch failed, or the document could not be rasterized
FatalFailure ==
    \/ fetch = "failed"
    \/ /\ fetch = "ok" /\ IsPdfUrl(url)
       /\ ~pdf_content.opens \/ pdf_content.bad_page \in 1..pdf_content.pages

\* C9: after a failed fetch or a failed rasterization the request ends, after
\* one fetch and at most one rasterization, with success = false, a non-empty
\* error message, every collection empty and neither preview images nor
\* per-page results.
C9_UniformFailure ==
    (pc = "done" /\ FatalFailure) =>
        /\ result.success = FALSE
        /\ result.error # <<>>
        /\ result.plain_text = <<>>
        /\ result.structured_data = <<>>
        /\ result.key_value_pairs = EmptyDict
        /\ result.tables = <<>>
        /\ result.original_image_base64 = <<>>
        /\ "all_page_images" \notin DOMAIN result
        /\ "pages_data" \notin DOMAIN result
        /\ fetch_calls = 1
        /\ raster_calls <= 1

\* the second of three pages fails to render, after the first rendered
C9_Witness ==
    /\ pc = "done"
    /\ fetch = "ok" /\ IsPdfUrl(url)
    /\ pdf_content.opens /\ pdf_content.pages = 3 /\ pdf_content.bad_page = 2
    /\ result.success = FALSE
    /\ raster_calls = 1

\* the download itself fails
C9_FetchFailureSeen == pc = "done" /\ fetch = "failed" /\ result.success = FALSE

\* a url that urlparse rejects is answered with the text of what urlparse
\* raised and is never fetched
MalformedUrlAnswered ==
    (pc = "done" /\ url.raises # <<>>) =>
        /\ result = create_error_response(err_document_prefix
                                              \o url.raises[1])
        /\ fetch_calls = 0 /\ raster_calls = 0

MalformedUrlSeen ==
    /\ pc = "done" /\ ~result.success
    /\ url.raises = <<<<"A","n"," ","I","P","v","4"," ","a","d","d","r","e",
                        "s","s"," ","c","a","n","n","o","t"," ","b","e"," ",
                        "i","n"," ","b","r","a","c","k","e","t","s">>>>

(***************************************************************************)
(* One image through OCRService._process_image_from_url once it has been   *)
(* downloaded (ocr_service.py 70-93), extract_all_data_advanced taken      *)
(* statement by statement (text_extractor.py 159-189). The inputs are the  *)
(* step of the preprocessor that raises, what the engine does in each      *)
(* pass, the layout steps that raise and whether the preview encodes.      *)
(***************************************************************************)
ImageUrl == [ext |-> <<".","p","n","g">>, raises |-> <<>>]

\* image_to_data columns: a padded word, a word rated just above the limit,
\* one rated at the limit, a blank rated high and an empty box
SampleEntries ==
    <<[text |-> <<" ","T","o","t","a","l"," ">>, conf |-> 95, left |-> 0,
       top |-> 0, width |-> 40],
      [text |-> <<"5","0","0">>, conf |-> min_token_confidence + 1,
       left |-> 50, top |-> 2, width |-> 30],
      [text |-> <<"l","o","w">>, conf |-> min_token_confidence, left |-> 90,
       top |-> 0, width |-> 10],
      [text |-> <<" ">>, conf |-> 95, left |-> 110, top |-> 0, width |-> 5],
      [text |-> <<>>, conf |-> -1, left |-> 0, top |-> 0, width |-> 200]>>

EntryOutcome(entries) == [kind |-> "data", entries |-> entries]

\* the five profile attempts of one page
ImageProfiles ==
    { [i \in 1..Len(configs_to_test) |->
          DataOutcome(<<95, 31>>, <<<<"T","o","t","a","l">>, <<"5","0","0">>>>,
                      FastSeconds)],
      [i \in 1..Len(configs_to_test) |-> DataOutcome(<<>>, <<>>, FastSeconds)],
      [i \in 1..Len(configs_to_test) |-> TimeoutOutcome(SlowSeconds)],
      [i \in 1..Len(configs_to_test) |-> RaiseOutcome(FastSeconds)],
      <<TimeoutOutcome(SlowSeconds), RaiseOutcome(FastSeconds),
        DataOutcome(<<40>>, <<<<"a">>>>, FastSeconds),
        DataOutcome(<<95>>, <<<<" ">>>>, FastSeconds),
        RaiseOutcome(FastSeconds)>> }

ImageFallbacks ==
    FallbackData \cup {StringOutcome(<<" ">>, FastSeconds),
                       TimeoutOutcome(fallback_timeout_seconds),
                       RaiseOutcome(FastSeconds)}

ImageStructured ==
    { EntryOutcome(SampleEntries),
      EntryOutcome(EntriesOf(PageWords(<<"data", "data">>))),
      EntryOutcome(<<>>),
      [kind |-> "timeout", entries |-> <<>>],
      [kind |-> "raise", entries |-> <<>>] }

\* the pipeline hands the preprocessor an RGB image (ocr_service.py 70), so
\* the conversion of step 1 never runs
ImagePreFailures == {0} \cup 2..Len(pre_steps)

ImageInit ==
    /\ ipc = "encode"
    /\ page_image = [id |-> 1, mode |-> "RGB", ops |-> <<>>]
    /\ page_pre_fail \in ImagePreFailures
    /\ page_ocr \in [profiles : ImageProfiles, fallback : ImageFallbacks,
                     structured : ImageStructured,
                     layout_faults : SUBSET layout_steps]
    /\ page_encodes \in BOOLEAN
    /\ original_image_b64 = NoValue /\ processed_image = NoValue
    /\ page_plain_text = NoValue /\ page_structured_data = NoValue
    /\ extracted = NoValue /\ image_result = NoValue
    /\ plain_runs = 0 /\ structured_runs = 0

\* ocr_service.py 71
EncodeOriginal ==
    /\ ipc = "encode"
    /\ original_image_b64' = image_to_base64(page_image, page_encodes)
    /\ ipc' = "preprocess"
    /\ UNCHANGED <<page_image, page_pre_fail, page_ocr, page_encodes,
                   processed_image, page_plain_text, page_structured_data,
                   extracted, image_result, plain_runs, structured_runs>>
    /\ UNCHANGED <<layoutVars, recogVars, preVars, docVars, runVars,
                   rasterVars>>

\* ocr_service.py 72
PreprocessImage ==
    /\ ipc = "preprocess"
    /\ processed_image' = preprocess_image_advanced(page_image, page_pre_fail)
    /\ ipc' = "plain_text"
    /\ UNCHANGED <<page_image, page_pre_fail, page_ocr, page_encodes,
                   original_image_b64, page_plain_text, page_structured_data,
                   extracted, image_result, plain_runs, structured_runs>>
    /\ UNCHANGED <<layoutVars, recogVars, preVars, docVars, runVars,
                   rasterVars>>

\* text_extractor.py 162
PlainTextStage ==
    /\ ipc = "plain_text"
    /\ page_plain_text' =
           extract_plain_text_advanced(page_ocr.profiles, page_ocr.fallback)
    /\ plain_runs' = plain_runs + 1
    /\ ipc' = "structured"
    /\ UNCHANGED <<page_image, page_pre_fail, page_ocr, page_encodes,
                   original_image_b64, processed_image, page_structured_data,
                   extracted, image_result, structured_runs>>
    /\ UNCHANGED <<layoutVars, recogVars, preVars, docVars, runVars,
                   rasterVars>>

\* text_extractor.py 163
StructuredStage ==
    /\ ipc = "structured"
    /\ page_structured_data' =
           extract_text_with_confidence_and_positioning_advanced(
               page_ocr.structured)
    /\ structured_runs' = structured_runs + 1
    /\ ipc' = "layout"
    /\ UNCHANGED <<page_image, page_pre_fail, page_ocr, page_encodes,
                   original_image_b64, processed_image, page_plain_text,
                   extracted, image_result, plain_runs>>
    /\ UNCHANGED <<layoutVars, recogVars, preVars, docVars, runVars,
                   rasterVars>>

\* text_extractor.py 164-189
LayoutStage ==
    /\ ipc = "layout"
    /\ extracted' = AfterRecognition(page_plain_text, page_structured_data,
                                     page_ocr.layout_faults)
    /\ ipc' = "assemble"
    /\ UNCHANGED <<page_image, page_pre_fail, page_ocr, page_encodes,
                   original_image_b64, processed_image, page_plain_text,
                   page_structured_data, image_result, plain_runs,
                   structured_runs>>
    /\ UNCHANGED <<layoutVars, recogVars, preVars, docVars, runVars,
                   rasterVars>>

\* ocr_service.py 75-93
AssembleImage ==
    /\ ipc = "assemble"
    /\ image_result' = ImageResult(ImageUrl, extracted, original_image_b64)
    /\ ipc' = "done"
    /\ UNCHANGED <<page_image, page_pre_fail, page_ocr, page_encodes,
                   original_image_b64, processed_image, page_plain_text,
                   page_structured_data, extracted, plain_runs,
                   structured_runs>>
    /\ UNCHANGED <<layoutVars, recogVars, preVars, docVars, runVars,
                   rasterVars>>

InitImage ==
    /\ ImageInit /\ LayoutIdle /\ RecogIdle /\ PreIdle /\ DocIdle /\ RunIdle
    /\ RasterIdle
NextImage ==
    \/ EncodeOriginal \/ PreprocessImage \/ PlainTextStage \/ StructuredStage
    \/ LayoutStage \/ AssembleImage
SpecImage == InitImage /\ [][NextImage]_vars

(***************************************************************************)
(* Properties of the image pipeline                                        *)
(***************************************************************************)
\* no pass of the engine finds anything on a page read as ocr
NothingOn(ocr) ==
    /\ \A i \in 1..Len(ocr.profiles) :
          \/ ocr.profiles[i].kind # "data"
          \/ JoinedText(ocr.profiles[i]) = <<>>
    /\ \/ ocr.fallback.kind # "data"
       \/ Strip(ocr.fallback.result) = <<>>
    /\ \/ ocr.structured.kind # "data"
       \/ \A i \in 1..Len(ocr.structured.entries) :
             \/ Strip(ocr.structured.entries[i].text) = <<>>
             \/ ocr.structured.entries[i].conf <= 30

NothingRecognized == NothingOn(page_ocr)

\* the plain texts of a page on which nothing was recognized
EmptyOrSentinel ==
    {<<>>,
     <<"O","C","R"," ","p","r","o","c","e","s","s","i","n","g"," ","t","i",
       "m","e","d"," ","o","u","t"," ","-"," ","u","n","a","b","l","e"," ",
       "t","o"," ","e","x","t","r","a","c","t"," ","t","e","x","t">>,
     <<"O","C","R"," ","p","r","o","c","e","s","s","i","n","g"," ","f","a",
       "i","l","e","d">>}

\* on one image, for every combination of a failing preprocessor step, of
\* what each pass of the engine does and of failing layout steps: the result
\* has success = true, and when no pass recognizes anything its collections
\* are empty and its plain text is empty or a sentinel
ImageStagesDegrade ==
    ipc = "done" =>
        /\ image_result.success = TRUE
        /\ NothingRecognized =>
              /\ image_result.structured_data = <<>>
              /\ image_result.key_value_pairs = EmptyDict
              /\ image_result.tables = <<>>
              /\ image_result.plain_text \in EmptyOrSentinel

\* everything fails at once: the preprocessor, the five attempts, the
\* fallback, the structured pass and all three layout steps
AllStagesFailSeen ==
    /\ ipc = "done"
    /\ page_pre_fail # 0
    /\ \A i \in 1..Len(page_ocr.profiles) : page_ocr.profiles[i].kind = "raise"
    /\ page_ocr.fallback.kind = "raise"
    /\ page_ocr.structured.kind = "raise"
    /\ page_ocr.layout_faults = layout_steps
    /\ image_result.success = TRUE
    /\ image_result.plain_text = <<>>

\* the attempts and the fallback time out, the layout is sound: the sentinel
ImageSentinelSeen ==
    /\ ipc = "done"
    /\ page_ocr.layout_faults = {}
    /\ image_result.success = TRUE
    /\ image_result.plain_text = msg_timed_out
    /\ image_result.structured_data = <<>>

(***************************************************************************)
(* Degradation over whole documents, images and paged ones                 *)
(***************************************************************************)
\* the request has ended after a fetch and, for a paged document, a
\* rasterization that went through
FetchedAndRasterized ==
    /\ pc = "done" /\ fetch = "ok"
    /\ IsPdfUrl(url) => (pdf_content.opens /\ pdf_content.bad_page = 0)

\* nothing was recognized on any page of the document
NothingOnAnyPage ==
    \A i \in 1..Len(page_inputs) : NothingOn(page_inputs[i].ocr)

\* the collections of the document are empty
EmptyCollections ==
    /\ result.structured_data = <<>>
    /\ result.key_value_pairs = EmptyDict
    /\ result.tables = <<>>

\* the page texts from page k on, each behind the marker of its page
RECURSIVE MarkedTexts(_, _)
MarkedTexts(texts, k) ==
    IF k > Len(texts) THEN <<>>
    ELSE <<"\n">> \o MarkerOf(k) \o <<"\n">> \o texts[k]
         \o MarkedTexts(texts, k + 1)

\* C11 as claimed: after a fetch and a rasterization that went through the
\* result has success = true whatever fails later, and when nothing is
\* recognized its tokens, key-value pairs and tables are empty and its plain
\* text is empty or one of the two sentinels. (Fails for a paged document:
\* its plain text carries the marker of every page.)
C11_NonFatalDegrade ==
    FetchedAndRasterized =>
        /\ result.success = TRUE
        /\ NothingOnAnyPage =>
              (EmptyCollections /\ result.plain_text \in EmptyOrSentinel)

\* C11 as amended: after a fetch and a rasterization that went through the
\* result has success = true whatever fails later; when nothing is
\* recognized its tokens, key-value pairs and tables are empty, the plain
\* text of a single image is empty or one of the two sentinels, and in a
\* paged document the plain text of every page is empty or one of the two
\* sentinels and the plain text of the document is those page texts, each
\* behind the marker of its page, with the outer whitespace stripped.
C11_DegradeWithMarkers ==
    FetchedAndRasterized =>
        /\ result.success = TRUE
        /\ NothingOnAnyPage =>
              /\ EmptyCollections
              /\ ~IsPdfUrl(url) => result.plain_text \in EmptyOrSentinel
              /\ IsPdfUrl(url) =>
                    LET texts == [i \in 1..Len(result.pages_data) |->
                                     result.pages_data[i].plain_text]
                    IN  /\ Len(texts) = pdf_content.pages
                        /\ \A i \in 1..Len(texts) :
                              /\ texts[i] \in EmptyOrSentinel
                              /\ result.pages_data[i].structured_data = <<>>
                              /\ result.pages_data[i].tables = <<>>
                        /\ result.plain_text = Strip(MarkedTexts(texts, 1))

\* a document of two pages: on the first a step of the preprocessor and the
\* line grouping raise and the page is blank, on the second every pass times
\* out and the last step of the preprocessor and two layout steps raise
C11_Witness ==
    /\ FetchedAndRasterized /\ IsPdfUrl(url) /\ NothingOnAnyPage
    /\ Len(page_inputs) = 2
    /\ page_inputs[1].pre_fail_at = 2
    /\ page_inputs[1].ocr.layout_faults = {"group"}
    /\ page_inputs[2].pre_fail_at = Len(pre_steps)
    /\ page_inputs[2].processed_image = [id |-> 2, mode |-> "RGB", ops |-> <<>>]
    /\ page_inputs[2].ocr.layout_faults = {"kv", "table"}
    /\ result.success = TRUE
    /\ result.pages_data[2].plain_text = msg_timed_out

\* a single image on which every pass times out: the sentinel alone
C11_ImageSentinelSeen ==
    /\ FetchedAndRasterized /\ ~IsPdfUrl(url) /\ NothingOnAnyPage
    /\ page_inputs[1].pre_fail_at # 0
    /\ result.success = TRUE
    /\ result.plain_text = msg_timed_out

\* a readable page on which every layout step raises, after a blank one
C11_ReadableFaultSeen ==
    /\ FetchedAndRasterized /\ IsPdfUrl(url) /\ ~NothingOnAnyPage
    /\ Len(page_inputs) = 2
    /\ page_inputs[2].ocr.layout_faults = layout_steps
    /\ result.success = TRUE
    /\ result.key_value_pairs = EmptyDict

\* C18: every page gets exactly one structured pass, however the plain-text
\* stage ended; its tokens have non-empty text and a confidence above 30;
\* when it times out or raises the token list is empty, the plain text is
\* the one the plain-text stage produced and the request succeeds.
C18_StructuredPassIndependent ==
    ipc = "done" =>
        /\ structured_runs = 1
        /\ \A i \in 1..Len(page_structured_data) :
              /\ page_structured_data[i].text # <<>>
              /\ page_structured_data[i].confidence > 30
        /\ page_ocr.structured.kind # "data" =>
              /\ page_structured_data = <<>>
              /\ image_result.success = TRUE
              /\ image_result.structured_data = <<>>
              /\ "group" \notin page_ocr.layout_faults =>
                    image_result.plain_text = page_plain_text

\* the structured pass times out after the profile loop found a text
C18_Witness ==
    /\ ipc = "done"
    /\ page_ocr.structured.kind = "timeout"
    /\ page_plain_text = <<"T","o","t","a","l","\n","5","0","0">>
    /\ image_result.plain_text = page_plain_text
    /\ image_result.structured_data = <<>>
    /\ structured_runs = 1

\* the structured pass runs after the sentinel, and drops the token rated 30
C18_FilterSeen ==
    /\ ipc = "done"
    /\ page_plain_text = msg_failed
    /\ page_ocr.structured.kind = "data"
    /\ Len(page_ocr.structured.entries) = 5
    /\ Len(page_structured_data) = 2
    /\ structured_runs = 1

\* C20: a failure of line grouping, key-value extraction or table extraction
\* empties only the key-value pairs and/or the tables: the plain text and
\* the tokens of the recognizer are returned unchanged. (Fails: a failure
\* of group_words_into_lines is caught by extract_all_data_advanced, which
\* returns an empty plain text and no tokens.)
C20_LayoutFailuresLocal ==
    (ipc = "done" /\ page_ocr.layout_faults # {}) =>
        /\ image_result.success = TRUE
        /\ image_result.plain_text = page_plain_text
        /\ image_result.structured_data = page_structured_data

(***************************************************************************)
(* run_with_timeout (ocr_helpers.py 10-36) under the profile loop          *)
(* (text_extractor.py 32-62). Every call starts a daemon thread that runs  *)
(* the engine and stores what it gets in the cell of the call; the caller  *)
(* joins with a budget and goes on when the budget is over, leaving the    *)
(* thread running. workers[k] is the thread of call k: "running" while it  *)
(* is in the engine, "stored" once it has written its cell and is still    *)
(* alive, "finished" once the thread has ended.                            *)
(***************************************************************************)
MaxCalls == 3

\* what the engine can give a worker
EngineOutcomes ==
    { DataOutcome(<<50>>, <<<<"a">>>>, FastSeconds),
      DataOutcome(<<90>>, <<<<"b">>>>, FastSeconds),
      RaiseOutcome(FastSeconds) }

ResultCell_shared(call) == 1

\* ocr_helpers.py 15-16: result and exception are lists of the call itself
ResultCell(call) == call

\* ocr_helpers.py 18-22: target() stores the value or the exception
StoredCell(cell, outcome) ==
    IF outcome.kind = "raise"
    THEN [cell EXCEPT !.exception = <<outcome>>]
    ELSE [cell EXCEPT !.result = <<outcome>>]

\* ocr_helpers.py 33-36: what the caller gets from a thread that has ended
ReturnedFrom(cell) ==
    IF cell.exception # <<>> THEN cell.exception[1]
    ELSE IF cell.result # <<>> THEN cell.result[1]
    ELSE DataOutcome(<<>>, <<>>, FastSeconds)

RunInit ==
    /\ run_pc = "ready" /\ call_no = 0 /\ workers = <<>> /\ cells = <<>>
    /\ observed = <<>>
    /\ run_best = [best_text |-> <<>>, max_confidence |-> <<0, 1>>]

\* ocr_helpers.py 15-26: a call makes its cells and starts its thread
StartCall ==
    /\ run_pc = "ready"
    /\ call_no < MaxCalls
    /\ call_no' = call_no + 1
    /\ cells' = [c \in (DOMAIN cells) \cup {ResultCell(call_no + 1)} |->
                    IF c = ResultCell(call_no + 1)
                    THEN [result |-> <<>>, exception |-> <<>>]
                    ELSE cells[c]]
    /\ workers' = Append(workers, [state |-> "running",
                                   outcome |-> TimeoutOutcome(SlowSeconds)])
    /\ run_pc' = "join"
    /\ UNCHANGED <<observed, run_best>>
    /\ UNCHANGED <<layoutVars, recogVars, preVars, docVars, imageVars,
                   rasterVars>>

\* ocr_helpers.py 18-22: the engine call of a thread, joined or abandoned,
\* ends and the thread stores the value or the exception; it is still alive
WorkerStores ==
    /\ \E k \in 1..Len(workers) : \E outcome \in EngineOutcomes :
          /\ workers[k].state = "running"
          /\ workers' = [workers EXCEPT ![k] = [state |-> "stored",
                                                outcome |-> outcome]]
          /\ cells' = [cells EXCEPT ![ResultCell(k)] =
                          StoredCell(cells[ResultCell(k)], outcome)]
    /\ UNCHANGED <<run_pc, call_no, observed, run_best>>
    /\ UNCHANGED <<layoutVars, recogVars, preVars, docVars, imageVars,
                   rasterVars>>

\* the return of target(): the thread ends, is_alive() is False from now on
WorkerFinishes ==
    /\ \E k \in 1..Len(workers) :
          /\ workers[k].state = "stored"
          /\ workers' = [workers EXCEPT ![k].state = "finished"]
    /\ UNCHANGED <<run_pc, call_no, cells, observed, run_best>>
    /\ UNCHANGED <<layoutVars, recogVars, preVars, docVars, imageVars,
                   rasterVars>>

\* ocr_helpers.py 27-36, text_extractor.py 49-62: the thread has ended when
\* the caller looks; the caller takes what the cell holds
JoinReturns ==
    /\ run_pc = "join"
    /\ workers[call_no].state = "finished"
    /\ observed' = Append(observed, ReturnedFrom(cells[ResultCell(call_no)]))
    /\ run_best' = ProfileStep(run_best, ReturnedFrom(cells[ResultCell(call_no)]))
    /\ run_pc' = "ready"
    /\ UNCHANGED <<call_no, workers, cells>>
    /\ UNCHANGED <<layoutVars, recogVars, preVars, docVars, imageVars,
                   rasterVars>>

\* ocr_helpers.py 27-31, text_extractor.py 45-47: the budget is over and the
\* thread is still alive, in the engine or after its store; the caller goes
\* on without reading the cell
JoinTimesOut ==
    /\ run_pc = "join"
    /\ workers[call_no].state # "finished"
    /\ observed' = Append(observed, TimeoutOutcome(SlowSeconds))
    /\ run_pc' = "ready"
    /\ UNCHANGED <<call_no, workers, cells, run_best>>
    /\ UNCHANGED <<layoutVars, recogVars, preVars, docVars, imageVars,
                   rasterVars>>

InitRun ==
    /\ RunInit /\ LayoutIdle /\ RecogIdle /\ PreIdle /\ DocIdle
    /\ ImageIdle /\ RasterIdle
NextRun ==
    \/ StartCall \/ WorkerStores \/ WorkerFinishes \/ JoinReturns
    \/ JoinTimesOut
SpecRun == InitRun /\ [][NextRun]_vars

(***************************************************************************)
(* Properties of the worker threads                                        *)
(***************************************************************************)
\* the calls the caller gave up on
Abandoned == {k \in 1..Len(observed) : observed[k].kind = "timeout"}

\* the engine calls in progress
Running == {k \in 1..Len(workers) : workers[k].state = "running"}

\* C15: a call whose worker is still running at its budget is reported as
\* timed out and the caller goes on; what the abandoned worker produces
\* later is never handed to the caller: every other call is handed what its
\* own worker produced, and a step of an abandoned worker changes neither
\* the results handed out so far, nor the best text, nor the caller's
\* position.
C15_AbandonedNeverObserved ==
    /\ [](\A k \in 1..Len(observed) :
             \/ k \in Abandoned
             \/ workers[k].state = "finished" /\ observed[k] = workers[k].outcome)
    /\ [][(\E k \in Abandoned : workers'[k] # workers[k])
            => UNCHANGED <<observed, run_best, run_pc, call_no>>]_vars

\* the first worker was abandoned and raised later, while the second call
\* had returned 'b', which stays the best text
C15_Witness ==
    /\ Len(observed) >= 2
    /\ observed[1].kind = "timeout"
    /\ workers[1].state = "finished" /\ workers[1].outcome.kind = "raise"
    /\ observed[2].kind = "data"
    /\ run_best.best_text = <<"b">>

\* the first worker had stored 'a' and was still alive when the budget ran
\* out: the caller was handed a timeout and 'a' was never selected
C15_StoredButAliveSeen ==
    /\ Len(observed) >= 1
    /\ observed[1].kind = "timeout"
    /\ workers[1].state = "stored"
    /\ cells[ResultCell(1)].result # <<>>
    /\ cells[ResultCell(1)].result[1].text = <<<<"a">>>>
    /\ run_best.best_text = <<>>

\* C16: no two engine calls are in progress at the same time. (Fails: the
\* thread of a timed-out call keeps running while the next call starts its
\* own, and nothing serializes them.)
C16_SerializedRecognition == Cardinality(Running) <= 1

(***************************************************************************)
(* process_pdf_pages (image_processor.py 108-151) step by step, with the   *)
(* temporary file and the document handle. raster_faults holds the calls   *)
(* on the temporary storage and on the handle that raise: tmp_file.write,  *)
(* os.unlink and doc.close. doc_handle is "unbound" until fitz.open has    *)
(* returned.                                                               *)
(***************************************************************************)
RasterFaults == SUBSET {"write", "unlink", "close"}

RasterInit ==
    /\ raster_pc = "start"
    /\ raster_content \in PdfContents
    /\ raster_faults \in RasterFaults
    /\ tmp_file_exists = FALSE /\ doc_handle = "unbound" /\ pages_data = <<>>
    /\ raster_exit = NoValue

rasterInputs == <<raster_content, raster_faults>>
otherThanRaster ==
    <<layoutVars, recogVars, preVars, docVars, imageVars, runVars>>

\* image_processor.py 114: NamedTemporaryFile(suffix='.pdf', delete=False)
CreateTempFile ==
    /\ raster_pc = "start"
    /\ tmp_file_exists' = TRUE
    /\ raster_pc' = "write"
    /\ UNCHANGED <<rasterInputs, doc_handle, pages_data, raster_exit>>
    /\ UNCHANGED otherThanRaster

\* image_processor.py 115-116: the write is outside the inner try, so when
\* it raises only the outer except (149-151) runs, which raises again
WriteBytes ==
    /\ raster_pc = "write"
    /\ IF "write" \in raster_faults
       THEN raster_pc' = "exit" /\ raster_exit' = "raised"
       ELSE raster_pc' = "open" /\ UNCHANGED raster_exit
    /\ UNCHANGED <<rasterInputs, tmp_file_exists, doc_handle, pages_data>>
    /\ UNCHANGED otherThanRaster

\* image_processor.py 118-119
OpenDocument ==
    /\ raster_pc = "open"
    /\ IF raster_content.opens
       THEN /\ doc_handle' = "open" /\ raster_pc' = "render"
            /\ UNCHANGED raster_exit
       ELSE /\ raster_pc' = "finally" /\ raster_exit' = "raised"
            /\ UNCHANGED doc_handle
    /\ UNCHANGED <<rasterInputs, tmp_file_exists, pages_data>>
    /\ UNCHANGED otherThanRaster

\* image_processor.py 121-135: one turn of the page loop
RenderPage ==
    /\ raster_pc = "render"
    /\ Len(pages_data) < raster_content.pages
    /\ IF raster_content.bad_page = Len(pages_data) + 1
       THEN /\ raster_pc' = "finally" /\ raster_exit' = "raised"
            /\ UNCHANGED pages_data
       ELSE /\ pages_data' =
                  Append(pages_data, RenderedPages(Len(pages_data) + 1)
                                         [Len(pages_data) + 1])
            /\ UNCHANGED <<raster_pc, raster_exit>>
    /\ UNCHANGED <<rasterInputs, tmp_file_exists, doc_handle>>
    /\ UNCHANGED otherThanRaster

\* image_processor.py 137
ReturnPages ==
    /\ raster_pc = "render"
    /\ Len(pages_data) = raster_content.pages
    /\ raster_pc' = "finally" /\ raster_exit' = "returned"
    /\ UNCHANGED <<rasterInputs, tmp_file_exists, doc_handle, pages_data>>
    /\ UNCHANGED otherThanRaster

\* image_processor.py 139-147: doc.close() and os.unlink(tmp_file_path),
\* each in a try whose bare except swallows what it raises (a NameError
\* when doc is unbound, whatever close or unlink raise otherwise), so a
\* failed close leaves the handle open and a failed unlink leaves the file
Release ==
    /\ raster_pc = "finally"
    /\ doc_handle' = IF doc_handle = "open" /\ "close" \notin raster_faults
                     THEN "closed" ELSE doc_handle
    /\ tmp_file_exists' = IF "unlink" \in raster_faults THEN tmp_file_exists
                          ELSE FALSE
    /\ raster_pc' = "exit"
    /\ UNCHANGED <<rasterInputs, pages_data, raster_exit>>
    /\ UNCHANGED otherThanRaster

InitRaster ==
    /\ RasterInit /\ LayoutIdle /\ RecogIdle /\ PreIdle /\ DocIdle
    /\ ImageIdle /\ RunIdle
NextRaster ==
    \/ CreateTempFile \/ WriteBytes \/ OpenDocument \/ RenderPage
    \/ ReturnPages \/ Release
SpecRaster == InitRaster /\ [][NextRaster]_vars

\* the stepwise function agrees with process_pdf_pages where the storage
\* takes the bytes
RasterAgrees ==
    (raster_pc = "exit" /\ "write" \notin raster_faults) =>
        /\ (raster_exit = "raised") = process_pdf_pages(raster_content).raised
        /\ raster_exit = "returned" =>
              pages_data = process_pdf_pages(raster_content).value

\* C17: whenever process_pdf_pages has returned or raised, the temporary
\* file is deleted and no document handle is left open. (Fails: when writing
\* the bytes raises, the file made with delete=False is still there; so it
\* is when os.unlink raises, and the handle stays open when close raises.)
C17_ScopedRelease ==
    raster_pc = "exit" => (~tmp_file_exists /\ doc_handle # "open")

\* the file is gone at every exit where neither the write nor the unlink
\* raised, and no handle is open where the close did not raise
ReleasedUnlessFaulted ==
    raster_pc = "exit" =>
        /\ raster_faults \cap {"write", "unlink"} = {} => ~tmp_file_exists
        /\ "close" \notin raster_faults => doc_handle # "open"

\* the write went through, the function returned its pages, and the unlink
\* raised: the file is still there
UnlinkFailureSeen ==
    /\ raster_pc = "exit" /\ raster_exit = "returned"
    /\ raster_faults = {"unlink"} /\ tmp_file_exists
    /\ doc_handle = "closed"

\* a page failed to render after the document was opened, and both were
\* released
RenderFailureReleased ==
    /\ raster_pc = "exit" /\ raster_exit = "raised"
    /\ raster_faults = {}
    /\ doc_handle = "closed" /\ ~tmp_file_exists
    /\ pages_data # <<>>

====
